---- MODULE Spec2Model ----
(***************************************************************************)
(* A model of the chfs-py file server core: IP filter, rule evaluator,     *)
(* path resolver, storage gateway (upload), request middleware (token      *)
(* bucket, concurrency cap), the direct-transfer broker with its files and *)
(* its streaming, the file API, the JSON stores, the configuration with    *)
(* the registered users, and the ranged download.                          *)
(*                                                                         *)
(* Each component has its own variables and its own specification; a       *)
(* component's specification leaves the other components' variables at     *)
(* their initial (idle) values.                                            *)
(*                                                                         *)
(* Strings are sequences of one-character strings.  IP addresses are bit   *)
(* sequences tagged with their version.                                    *)
(***************************************************************************)
EXTENDS Integers, Sequences, FiniteSets, TLC

\* ---------------------------------------------------------------- bounds
\* Longest allow / deny list drawn for the IP filter.
MaxList == 2

\* ------------------------------------------------------------ IP filter
\* src/app/ipfilter.py

VARIABLES ip_str, allow_list, deny_list, ip_result

ipVars == <<ip_str, allow_list, deny_list, ip_result>>

\* Python's None, for an address or a network.
NoNet == [ver |-> 0, bits |-> <<>>]

\* Client address strings: "" , an unparsable string, or an address.
EmptyIp == [kind |-> "empty", ver |-> 0, bits |-> <<>>]
BadIp == [kind |-> "bad", ver |-> 0, bits |-> <<>>]
Addr(v, b) == [kind |-> "addr", ver |-> v, bits |-> b]

\* CIDR strings: "*", an unparsable string, a bare address, address/prefix.
StarCidr == [kind |-> "star", ver |-> 0, bits |-> <<>>, plen |-> 0]
BadCidr == [kind |-> "bad", ver |-> 0, bits |-> <<>>, plen |-> 0]
BareCidr(v, b) == [kind |-> "addr", ver |-> v, bits |-> b, plen |-> Len(b)]
NetCidr(v, b, p) == [kind |-> "net", ver |-> v, bits |-> b, plen |-> p]

\* ipaddress.ip_address(ip_str): the address, or NoNet on ValueError.
ip_address(s) ==
    IF s.kind = "addr" THEN [ver |-> s.ver, bits |-> s.bits] ELSE NoNet

\* parse_cidr: "*" is 0.0.0.0/0; a bare address gets the full prefix length;
\* ip_network(strict=False) masks the host bits; a prefix longer than the
\* address is a ValueError (None).
parse_cidr(c) ==
    CASE c.kind = "star" -> [ver |-> 4, bits |-> <<>>]
      [] c.kind = "addr" -> [ver |-> c.ver, bits |-> c.bits]
      [] c.kind = "net" ->
            IF c.plen <= Len(c.bits)
            THEN [ver |-> c.ver, bits |-> SubSeq(c.bits, 1, c.plen)]
            ELSE NoNet
      [] OTHER -> NoNet

\* net.prefixlen
prefixlen(net) == Len(net.bits)

\* ip_obj in net (False across versions)
InNet(ip, net) ==
    /\ net.ver = ip.ver
    /\ prefixlen(net) <= Len(ip.bits)
    /\ SubSeq(ip.bits, 1, prefixlen(net)) = net.bits

\* _parse_networks: the parsable entries, in order.
RECURSIVE _parse_networks(_)
_parse_networks(cidr_list) ==
    IF cidr_list = <<>> THEN <<>>
    ELSE LET network == parse_cidr(Head(cidr_list))
             rest == _parse_networks(Tail(cidr_list))
         IN IF network # NoNet THEN <<network>> \o rest ELSE rest

\* [net for net in networks if ip_obj in net and net.version == ip_obj.version]
RECURSIVE Matching(_, _)
Matching(networks, ip_obj) ==
    IF networks = <<>> THEN <<>>
    ELSE LET net == Head(networks)
             rest == Matching(Tail(networks), ip_obj)
         IN IF InNet(ip_obj, net) /\ net.ver = ip_obj.ver
            THEN <<net>> \o rest ELSE rest

\* max(matching, key=prefixlen): the first element of the largest key.
RECURSIVE MaxByPrefix(_)
MaxByPrefix(matching) ==
    IF Len(matching) = 1 THEN Head(matching)
    ELSE LET m == MaxByPrefix(Tail(matching))
         IN IF prefixlen(Head(matching)) >= prefixlen(m)
            THEN Head(matching) ELSE m

_get_most_specific(networks, ip_obj) ==
    LET matching == Matching(networks, ip_obj)
    IN IF matching = <<>> THEN NoNet ELSE MaxByPrefix(matching)

check_ip_allowed(s, allow, deny) ==
    IF s.kind = "empty" THEN FALSE
    ELSE IF ip_address(s) = NoNet THEN FALSE
    ELSE LET ip_obj == ip_address(s)
             allow_networks == _parse_networks(allow)
             deny_networks == _parse_networks(deny)
             most_specific_allow == _get_most_specific(allow_networks, ip_obj)
             most_specific_deny == _get_most_specific(deny_networks, ip_obj)
         IN IF most_specific_allow # NoNet
            THEN IF most_specific_deny = NoNet THEN TRUE
                 ELSE prefixlen(most_specific_allow) >= prefixlen(most_specific_deny)
            ELSE IF most_specific_deny # NoNet THEN FALSE
                 ELSE allow_networks = <<>>

\* Inputs of the IP filter.
IpPool ==
    { EmptyIp, BadIp,
      Addr(4, <<1, 0, 1>>), Addr(4, <<0, 1, 1>>), Addr(6, <<1, 0, 1, 1>>) }

CidrPool ==
    { StarCidr, BadCidr,
      NetCidr(4, <<1, 0, 1>>, 1), NetCidr(4, <<1, 0, 0>>, 2),
      BareCidr(4, <<1, 0, 1>>), NetCidr(6, <<1, 0, 0, 0>>, 1) }

SeqsUpTo(S, n) == UNION { [1..k -> S] : k \in 0..n }

IpIdle ==
    /\ ip_str = EmptyIp
    /\ allow_list = <<>>
    /\ deny_list = <<>>
    /\ ip_result = "idle"

IpInit ==
    /\ ip_str \in IpPool
    /\ allow_list \in SeqsUpTo(CidrPool, MaxList)
    /\ deny_list \in SeqsUpTo(CidrPool, MaxList)
    /\ ip_result = "pending"

\* One call of check_ip_allowed on the drawn inputs.
CheckIp ==
    /\ ip_result = "pending"
    /\ ip_result' = IF check_ip_allowed(ip_str, allow_list, deny_list)
                    THEN "allow" ELSE "deny"
    /\ UNCHANGED <<ip_str, allow_list, deny_list>>

\* ------------------------------------------------------- rule evaluator
\* src/app/rules.py

VARIABLES cfg_rules, rq_user, rq_op, rq_root, rq_path, rq_ip, rq_result

ruleVars == <<cfg_rules, rq_user, rq_op, rq_root, rq_path, rq_ip, rq_result>>

\* Longest rule list drawn for the configuration.
MaxRules == 2

\* The anonymous principal (user is None).
NoUser == "None"

Permissions == {"R", "W", "D"}

StartsWith(s, pre) == Len(pre) <= Len(s) /\ SubSeq(s, 1, Len(pre)) = pre

EndsWith(s, suf) ==
    Len(suf) <= Len(s) /\ SubSeq(s, Len(s) - Len(suf) + 1, Len(s)) = suf

\* str.replace('\\', '/')
normalize_path(path) ==
    [i \in 1..Len(path) |-> IF path[i] = "\\" THEN "/" ELSE path[i]]

\* replace backslashes, then prepend '/' unless already there
RulePathNorm(p) ==
    LET q == normalize_path(p)
    IN IF StartsWith(q, <<"/">>) THEN q ELSE <<"/">> \o q

\* _check_path_allowed: the loop over allowed_paths, first match returns.
RECURSIVE PathLoop(_, _)
PathLoop(rel_path, allowed_paths) ==
    IF allowed_paths = <<>> THEN FALSE
    ELSE LET allowed_path == RulePathNorm(Head(allowed_paths))
         IN IF allowed_path = <<"*">> \/ allowed_path = <<"/", "*">> THEN TRUE
            ELSE IF rel_path = allowed_path THEN TRUE
            ELSE IF EndsWith(allowed_path, <<"/">>)
                 THEN IF StartsWith(rel_path, allowed_path) THEN TRUE
                      ELSE PathLoop(rel_path, Tail(allowed_paths))
                 ELSE IF StartsWith(rel_path, allowed_path \o <<"/">>) THEN TRUE
                      ELSE PathLoop(rel_path, Tail(allowed_paths))

_check_path_allowed(rel_path, allowed_paths) ==
    PathLoop(RulePathNorm(rel_path), allowed_paths)

Granted == [allowed |-> TRUE, reason |-> "Access granted by rule"]

Denied(why) == [allowed |-> FALSE, reason |-> why]

\* A variant of _evaluate_rule that forgets the share check.
_evaluate_rule_noroot(rule, operation, root_name, rel_path, client_ip) ==
    IF operation \notin rule.allow
    THEN Denied("Operation not allowed by rule")
    ELSE IF ~_check_path_allowed(rel_path, rule.paths)
    THEN Denied("Path not allowed by rule")
    ELSE IF ~check_ip_allowed(client_ip, rule.ip_allow, rule.ip_deny)
    THEN Denied("IP not allowed by rule")
    ELSE Granted

_evaluate_rule(rule, operation, root_name, rel_path, client_ip) ==
    IF operation \notin rule.allow
    THEN Denied("Operation not allowed by rule")
    ELSE IF root_name \notin rule.roots /\ "*" \notin rule.roots
    THEN Denied("Root not allowed by rule")
    ELSE IF ~_check_path_allowed(rel_path, rule.paths)
    THEN Denied("Path not allowed by rule")
    ELSE IF ~check_ip_allowed(client_ip, rule.ip_allow, rule.ip_deny)
    THEN Denied("IP not allowed by rule")
    ELSE Granted

\* for rule in config.rules: if rule.who == user.name or rule.who == "*"
RECURSIVE matching_rules(_, _)
matching_rules(rules, user) ==
    IF rules = <<>> THEN <<>>
    ELSE LET rest == matching_rules(Tail(rules), user)
         IN IF Head(rules).who = user \/ Head(rules).who = "*"
            THEN <<Head(rules)>> \o rest ELSE rest

\* for rule in matching_rules: the first rule that allows returns.
RECURSIVE EvalLoop(_, _, _, _, _)
EvalLoop(rules, operation, root_name, rel_path, client_ip) ==
    IF rules = <<>> THEN Denied("Access denied for operation")
    ELSE LET r == _evaluate_rule(Head(rules), operation, root_name, rel_path, client_ip)
         IN IF r.allowed THEN r
            ELSE EvalLoop(Tail(rules), operation, root_name, rel_path, client_ip)

\* RuleEvaluator.evaluate against the configuration's rules.
evaluate(rules, user, operation, root_name, rel_path, client_ip) ==
    IF user = NoUser THEN Denied("Authentication required")
    ELSE LET m == matching_rules(rules, user)
         IN IF m = <<>> THEN Denied("No access rules found for user")
            ELSE EvalLoop(m, operation, root_name, rel_path, client_ip)

\* A variant of operation_map that asks only READ of an upload.
operation_map_upload_read(operation) ==
    CASE operation = "list" -> "R"
      [] operation = "download" -> "R"
      [] operation = "upload" -> "R"
      [] operation = "mkdir" -> "W"
      [] operation = "rename" -> "W"
      [] operation = "delete" -> "D"
      [] OTHER -> "none"

\* check_api_access's operation_map ("none": operation_map.get is None).
operation_map(operation) ==
    CASE operation = "list" -> "R"
      [] operation = "download" -> "R"
      [] operation = "upload" -> "W"
      [] operation = "mkdir" -> "W"
      [] operation = "rename" -> "W"
      [] operation = "delete" -> "D"
      [] OTHER -> "none"

check_api_access(rules, user, operation, root_name, rel_path, client_ip) ==
    LET permission == operation_map(operation)
    IN IF permission = "none" THEN Denied("Unknown operation")
       ELSE evaluate(rules, user, permission, root_name, rel_path, client_ip)

Rule(who, allow, roots, paths, ipa, ipd) ==
    [who |-> who, allow |-> allow, roots |-> roots, paths |-> paths,
     ip_allow |-> ipa, ip_deny |-> ipd]

\* Rules the configuration is drawn from.
RulePool ==
    { Rule("alice", {"R", "W", "D"}, {"pub"}, << <<"/">> >>, <<StarCidr>>, <<>>),
      Rule("*", {"R"}, {"*"}, << <<"/", "d">> >>, <<>>, <<>>),
      Rule("bob", {"R", "W"}, {"pub"}, << <<"d", "/">>, <<"e">> >>,
           <<NetCidr(4, <<1, 0, 1>>, 1)>>, <<>>),
      Rule("alice", {"W"}, {"priv"}, << <<"*">> >>, <<>>, <<BareCidr(4, <<1, 0, 1>>)>>),
      Rule("bob", {"D"}, {"pub", "priv"}, << <<"\\", "d">> >>, <<StarCidr>>,
           <<NetCidr(4, <<1, 0, 0>>, 2)>>) }

UserPool == {NoUser, "alice", "bob"}

SharePool == {"pub", "priv"}

\* Request paths.
RelPathPool ==
    { <<>>, <<"/", "d">>, <<"d", "/", "a">>, <<"d", "x">>, <<"d", "\\", "a">>, <<"e">> }

ClientIpPool == { BadIp, Addr(4, <<1, 0, 1>>), Addr(4, <<0, 1, 1>>) }

RuleIdle ==
    /\ cfg_rules = <<>>
    /\ rq_user = NoUser
    /\ rq_op = "R"
    /\ rq_root = "pub"
    /\ rq_path = <<>>
    /\ rq_ip = BadIp
    /\ rq_result = Denied("idle")

RuleInit ==
    /\ cfg_rules \in SeqsUpTo(RulePool, MaxRules)
    /\ rq_user \in UserPool
    /\ rq_op \in Permissions
    /\ rq_root \in SharePool
    /\ rq_path \in RelPathPool
    /\ rq_ip \in ClientIpPool
    /\ rq_result = Denied("pending")

\* One call of evaluate on the drawn request.
Evaluate ==
    /\ rq_result = Denied("pending")
    /\ rq_result' = evaluate(cfg_rules, rq_user, rq_op, rq_root, rq_path, rq_ip)
    /\ UNCHANGED <<cfg_rules, rq_user, rq_op, rq_root, rq_path, rq_ip>>

\* ---------------------------------------------------------- path resolver
\* src/app/fs.py safe_join, over a filesystem with symbolic links.
\* An absolute path is a sequence of names; a name is a string (a sequence
\* of characters).  fs_links holds the symbolic links: [at |-> path of the
\* link, to |-> absolute target].

VARIABLES fs_links, sj_rel, sj_result

pathVars == <<fs_links, sj_rel, sj_result>>

\* Longest untrusted relative path drawn.
MaxRelLen == 4

\* The share root /s/p as configured (share.path).
ShareRoot == << <<"s">>, <<"p">> >>

DotDot == <<".", ".">>

Dot == <<".">>

\* urllib.parse.unquote on the percent-escapes of the alphabet.
unquote(str) ==
    [i \in 1..Len(str) |->
        CASE str[i] = "%2F" -> "/"
          [] str[i] = "%2E" -> "."
          [] str[i] = "%5C" -> "\\"
          [] OTHER -> str[i]]

\* str.lstrip(c)
RECURSIVE lstrip(_, _)
lstrip(str, c) ==
    IF str # <<>> /\ Head(str) = c THEN lstrip(Tail(str), c) ELSE str

\* str.rstrip(c)
RECURSIVE rstrip(_, _)
rstrip(str, c) ==
    IF str # <<>> /\ str[Len(str)] = c
    THEN rstrip(SubSeq(str, 1, Len(str) - 1), c) ELSE str

\* str.strip(): whitespace off both ends
strip(str) == rstrip(lstrip(str, " "), " ")

\* str.split('/')
RECURSIVE SplitAcc(_, _)
SplitAcc(str, cur) ==
    IF str = <<>> THEN <<cur>>
    ELSE IF Head(str) = "/" THEN <<cur>> \o SplitAcc(Tail(str), <<>>)
    ELSE SplitAcc(Tail(str), Append(cur, Head(str)))

split(str) == SplitAcc(str, <<>>)

HasLink(links, at) == \E l \in links : l.at = at

LinkTarget(links, at) == (CHOOSE l \in links : l.at = at).to

\* os.path.realpath: walk the components, following links; fuel bounds the
\* number of links followed (a loop runs out of it).
RECURSIVE Walk(_, _, _, _)
Walk(cur, parts, links, fuel) ==
    IF parts = <<>> THEN [ok |-> TRUE, path |-> cur]
    ELSE LET comp == Head(parts)
             next == Append(cur, comp)
         IN IF comp = Dot \/ comp = <<>> THEN Walk(cur, Tail(parts), links, fuel)
            ELSE IF comp = DotDot
            THEN Walk(IF cur = <<>> THEN cur ELSE SubSeq(cur, 1, Len(cur) - 1),
                      Tail(parts), links, fuel)
            ELSE IF HasLink(links, next)
            THEN IF fuel = 0 THEN [ok |-> FALSE, path |-> <<>>]
                 ELSE Walk(<<>>, LinkTarget(links, next) \o Tail(parts), links, fuel - 1)
            ELSE Walk(next, Tail(parts), links, fuel)

\* Path.resolve(strict=False)
resolve(path, links) ==
    Walk(<<>>, path, links, (Len(path) + 1) * (Cardinality(links) + 1))

\* resolved_path.relative_to(base_path) does not raise
relative_to(path, base) == StartsWith(path, base)

\* the loop over rel_path.split('/'): "bad" on a '..' part
RECURSIVE PartsLoop(_)
PartsLoop(segs) ==
    IF segs = <<>> THEN [bad |-> FALSE, parts |-> <<>>]
    ELSE LET rest == PartsLoop(Tail(segs))
         IN IF Head(segs) = <<>> \/ Head(segs) = Dot THEN rest
            ELSE IF Head(segs) = DotDot THEN [bad |-> TRUE, parts |-> <<>>]
            ELSE IF rest.bad THEN rest
            ELSE [bad |-> FALSE, parts |-> <<Head(segs)>> \o rest.parts]

SjOk(path) == [kind |-> "ok", path |-> path]

SjFail(kind) == [kind |-> kind, path |-> <<>>]

\* A variant of safe_join without the final containment check.
safe_join_nocheck(root_path, rel, links) ==
    LET rel_path == normalize_path(unquote(strip(rel)))
        base == resolve(root_path, links)
    IN IF rel_path \in {<<>>, <<".">>, <<".", "/">>}
       THEN IF base.ok THEN SjOk(base.path) ELSE SjFail("fserror")
       ELSE LET pl == PartsLoop(split(lstrip(rel_path, "/")))
            IN IF pl.bad THEN SjFail("traversal")
               ELSE IF ~base.ok THEN SjFail("fserror")
               ELSE LET resolved_path == resolve(base.path \o pl.parts, links)
                    IN IF ~resolved_path.ok THEN SjFail("fserror")
                       ELSE SjOk(resolved_path.path)

safe_join(root_path, rel, links) ==
    LET rel_path == normalize_path(unquote(strip(rel)))
        base == resolve(root_path, links)
    IN IF rel_path \in {<<>>, <<".">>, <<".", "/">>}
       THEN IF base.ok THEN SjOk(base.path) ELSE SjFail("fserror")
       ELSE LET pl == PartsLoop(split(lstrip(rel_path, "/")))
            IN IF pl.bad THEN SjFail("traversal")
               ELSE IF ~base.ok THEN SjFail("fserror")
               ELSE LET resolved_path == resolve(base.path \o pl.parts, links)
                    IN IF ~resolved_path.ok THEN SjFail("fserror")
                       ELSE IF ~relative_to(resolved_path.path, base.path)
                       THEN SjFail("traversal")
                       ELSE SjOk(resolved_path.path)

Link(at, to) == [at |-> at, to |-> to]

\* Symbolic links found under (or at) the share root.
LinkConfigs ==
    { {},
      { Link(ShareRoot \o << <<"l">> >>, << <<"e">> >>) },
      { Link(ShareRoot \o << <<"l">> >>, << <<"s">> >>) },
      { Link(ShareRoot \o << <<"a">> >>, ShareRoot \o << <<"l">> >>),
        Link(ShareRoot \o << <<"l">> >>, << <<"e">>, <<"a">> >>) },
      { Link(ShareRoot \o << <<"l">> >>, ShareRoot \o << <<"l">> >>) },
      { Link(ShareRoot \o << <<"a">> >>, ShareRoot \o << <<"l">>, <<"a">> >>) } }

\* Characters of the untrusted path; a percent-escape is one character here.
RelAlphabet == {"a", "l", ".", "/", "\\", "%2F", "%2E", " "}

PathIdle ==
    /\ fs_links = {}
    /\ sj_rel = <<>>
    /\ sj_result = SjFail("idle")

PathInit ==
    /\ fs_links \in LinkConfigs
    /\ sj_rel \in SeqsUpTo(RelAlphabet, MaxRelLen)
    /\ sj_result = SjFail("pending")

\* One call of safe_join(share.path, rel_path).
SafeJoin ==
    /\ sj_result = SjFail("pending")
    /\ sj_result' = safe_join(ShareRoot, sj_rel, fs_links)
    /\ UNCHANGED <<fs_links, sj_rel>>

\* ------------------------------------------------------------ rate limit
\* src/app/models.py TokenBucket, src/app/middleware.py RateLimitMiddleware.
\* Time is counted in ticks of 1 / (rps * TickDen) seconds and tokens in
\* units of 1 / TickDen token, so that one tick refills one unit.

VARIABLES tb_tokens, tb_last_refill, rl_now, rl_count, rl_first, rl_status,
          rate_limit_hits

rateVars == <<tb_tokens, tb_last_refill, rl_now, rl_count, rl_first, rl_status,
              rate_limit_hits>>

\* RateLimitConfig.rps and .burst
rps == 50

burst == 100

\* Ticks per token refill interval (the resolution of the clock).
TickDen == 2

TicksPerSecond == rps * TickDen

\* TokenBucket.capacity, in units
capacity == burst * TickDen

Min(a, b) == IF a <= b THEN a ELSE b

Max(a, b) == IF a >= b THEN a ELSE b

\* A variant of consume that admits whenever any fraction of a token is left.
consume_any(tokens, last_refill, t, n) ==
    LET elapsed == t - last_refill
        refilled == Min(capacity, tokens + elapsed)
    IN IF refilled > 0
       THEN [ok |-> TRUE, tokens |-> Max(0, refilled - n * TickDen), last_refill |-> t]
       ELSE [ok |-> FALSE, tokens |-> refilled, last_refill |-> t]

\* TokenBucket.consume(n) called at time t
consume(tokens, last_refill, t, n) ==
    LET elapsed == t - last_refill
        refilled == Min(capacity, tokens + elapsed)
    IN IF refilled >= n * TickDen
       THEN [ok |-> TRUE, tokens |-> refilled - n * TickDen, last_refill |-> t]
       ELSE [ok |-> FALSE, tokens |-> refilled, last_refill |-> t]

NoResponse == [code |-> 0, retry_after |-> ""]

RateIdle ==
    /\ tb_tokens = capacity
    /\ tb_last_refill = 0
    /\ rl_now = 0
    /\ rl_count = 0
    /\ rl_first = 0
    /\ rl_status = NoResponse
    /\ rate_limit_hits = 0

\* TokenBucket.__post_init__: a full bucket, last refilled now.
RateInit == RateIdle

\* RateLimitMiddleware.dispatch for a request arriving dt ticks after the
\* previous one; requests are followed for one second from the first one, up
\* to the burst size and one more.
RateLimitDispatch(dt) ==
    /\ rl_count <= burst
    /\ rl_count > 0 => rl_now + dt - rl_first <= TicksPerSecond
    /\ LET t == rl_now + dt
           r == consume(tb_tokens, tb_last_refill, t, 1)
       IN /\ rl_now' = t
          /\ rl_first' = IF rl_count = 0 THEN t ELSE rl_first
          /\ rl_count' = rl_count + 1
          /\ tb_tokens' = r.tokens
          /\ tb_last_refill' = r.last_refill
          /\ rl_status' = IF r.ok THEN [code |-> 200, retry_after |-> ""]
                          ELSE [code |-> 429, retry_after |-> "1"]
          /\ rate_limit_hits' = IF r.ok THEN rate_limit_hits ELSE rate_limit_hits + 1

\* ------------------------------------------------------- concurrency cap
\* src/app/middleware.py ConcurrencyLimitMiddleware

VARIABLES sem_value, cl_pc, cl_status, cl_reached, active_requests

concVars == <<sem_value, cl_pc, cl_status, cl_reached, active_requests>>

\* Requests followed through the middleware.
NumReq == 4

\* ConcurrencyLimitMiddleware.max_concurrent
MaxConcurrent == 2

Requests == 1..NumReq

\* asyncio.Semaphore.release()
release(value) == value + 1

\* A variant of the finally block that forgets the release.
finally_release_skip(value) == value

\* finally: self.semaphore.release()
finally_release(value) == release(value)

\* metrics_manager.decrement_active_requests()
decrement_active_requests(n) == Max(0, n - 1)

ConcIdle ==
    /\ sem_value = MaxConcurrent
    /\ cl_pc = [r \in Requests |-> "idle"]
    /\ cl_status = [r \in Requests |-> "none"]
    /\ cl_reached = [r \in Requests |-> FALSE]
    /\ active_requests = 0

ConcInit == ConcIdle

\* dispatch starts: the permit is free and taken at once, or the request
\* starts waiting in wait_for(acquire, 0.1).
ClArrive(r) ==
    /\ cl_pc[r] = "idle"
    /\ IF sem_value > 0
       THEN /\ sem_value' = sem_value - 1
            /\ cl_pc' = [cl_pc EXCEPT ![r] = "inside"]
            /\ cl_reached' = [cl_reached EXCEPT ![r] = TRUE]
            /\ active_requests' = active_requests + 1
       ELSE /\ cl_pc' = [cl_pc EXCEPT ![r] = "waiting"]
            /\ UNCHANGED <<sem_value, cl_reached, active_requests>>
    /\ UNCHANGED cl_status

\* a permit was released within the grace timeout
ClAcquire(r) ==
    /\ cl_pc[r] = "waiting"
    /\ sem_value > 0
    /\ sem_value' = sem_value - 1
    /\ cl_pc' = [cl_pc EXCEPT ![r] = "inside"]
    /\ cl_reached' = [cl_reached EXCEPT ![r] = TRUE]
    /\ active_requests' = active_requests + 1
    /\ UNCHANGED cl_status

\* asyncio.TimeoutError: 429 with Retry-After: 1, call_next is not reached
ClTimeout(r) ==
    /\ cl_pc[r] = "waiting"
    /\ cl_pc' = [cl_pc EXCEPT ![r] = "done"]
    /\ cl_status' = [cl_status EXCEPT ![r] = "429 Retry-After: 1"]
    /\ UNCHANGED <<sem_value, cl_reached, active_requests>>

\* call_next returns: the finally block runs
ClReturn(r) ==
    /\ cl_pc[r] = "inside"
    /\ cl_pc' = [cl_pc EXCEPT ![r] = "done"]
    /\ cl_status' = [cl_status EXCEPT ![r] = "returned"]
    /\ active_requests' = decrement_active_requests(active_requests)
    /\ sem_value' = finally_release(sem_value)
    /\ UNCHANGED cl_reached

\* call_next raises an Exception: the finally block runs, then the outer
\* except Exception block decrements and releases again
ClRaise(r) ==
    /\ cl_pc[r] = "inside"
    /\ cl_pc' = [cl_pc EXCEPT ![r] = "done"]
    /\ cl_status' = [cl_status EXCEPT ![r] = "raised"]
    /\ active_requests' =
           decrement_active_requests(decrement_active_requests(active_requests))
    /\ sem_value' = release(finally_release(sem_value))
    /\ UNCHANGED cl_reached

\* the task is cancelled inside call_next (CancelledError is no Exception):
\* only the finally block runs
ClCancel(r) ==
    /\ cl_pc[r] = "inside"
    /\ cl_pc' = [cl_pc EXCEPT ![r] = "done"]
    /\ cl_status' = [cl_status EXCEPT ![r] = "cancelled"]
    /\ active_requests' = decrement_active_requests(active_requests)
    /\ sem_value' = finally_release(sem_value)
    /\ UNCHANGED cl_reached

\* ----------------------------------------------------------------- upload
\* src/app/api.py upload_file, src/app/fs.py save_uploaded_file.
\* The share's directory holds named files; a name refers to an inode and an
\* open file keeps its inode after the name is removed.  Inode 0 is a file
\* that exists from the start, inode u is the one upload u creates.  The
\* payload of upload u is the byte u repeated; -1 is the old file's byte and
\* 0 a hole.

VARIABLES up_pc, up_req, up_written, up_fd, up_result, disk_dir, ino_data,
          dir_exists

uploadVars == <<up_pc, up_req, up_written, up_fd, up_result, disk_dir, ino_data,
                dir_exists>>

\* Concurrent uploads followed.
NumUploads == 2

\* config.ui.maxUploadSize, in bytes
MaxUploadSize == 2

\* Bytes read per chunk (8192 in the source), scaled down.
ChunkSize == 2

Uploads == 1..NumUploads

\* Target names in the upload directory: "f" exists from the start.
Targets == {"f", "g"}

NoInode == -1

NoUpload == [target |-> "f", len |-> 0, known |-> FALSE]

Payload(u, n) == [i \in 1..n |-> u]

\* A variant of the size check that already rejects at the cap.
over_limit_at_cap(bytes_written, max_size) == bytes_written >= max_size

\* if max_size and bytes_written > max_size
over_limit(bytes_written, max_size) == bytes_written > max_size

\* f.write(chunk) at the handle's offset
WriteAt(data, off, chunk) ==
    [i \in 1..Max(Len(data), off + Len(chunk)) |->
        IF i > off /\ i <= off + Len(chunk) THEN chunk[i - off]
        ELSE IF i <= Len(data) THEN data[i] ELSE 0]

UploadIdle ==
    /\ up_pc = [u \in Uploads |-> "idle"]
    /\ up_req = [u \in Uploads |-> NoUpload]
    /\ up_written = [u \in Uploads |-> 0]
    /\ up_fd = [u \in Uploads |-> NoInode]
    /\ up_result = [u \in Uploads |-> "none"]
    /\ disk_dir = [t \in Targets |-> IF t = "f" THEN 0 ELSE NoInode]
    /\ ino_data = [i \in 0..NumUploads |-> IF i = 0 THEN <<-1>> ELSE <<>>]
    /\ dir_exists = FALSE

UploadInit == UploadIdle

UpFinish(u, result) ==
    /\ up_pc' = [up_pc EXCEPT ![u] = "done"]
    /\ up_result' = [up_result EXCEPT ![u] = result]

\* upload_file: the declared size, when known, is checked against the cap
\* before the storage gateway is called (413)
UpBegin(u, target, len, known) ==
    /\ up_pc[u] = "idle"
    /\ up_req' = [up_req EXCEPT ![u] = [target |-> target, len |-> len, known |-> known]]
    /\ IF known /\ len > MaxUploadSize
       THEN UpFinish(u, "413")
       ELSE /\ up_pc' = [up_pc EXCEPT ![u] = "ensure_dir"]
            /\ UNCHANGED up_result
    /\ UNCHANGED <<up_written, up_fd, disk_dir, ino_data, dir_exists>>

\* if not exists(dir_path): makedirs(dir_path, exist_ok=True)
UpEnsureDir(u) ==
    /\ up_pc[u] = "ensure_dir"
    /\ dir_exists' = TRUE
    /\ up_pc' = [up_pc EXCEPT ![u] = "chk_file"]
    /\ UNCHANGED <<up_req, up_written, up_fd, up_result, disk_dir, ino_data>>

\* if exists(file_path): raise FileSystemError("File already exists")
UpCheckFile(u) ==
    /\ up_pc[u] = "chk_file"
    /\ IF disk_dir[up_req[u].target] # NoInode
       THEN UpFinish(u, "exists")
       ELSE /\ up_pc' = [up_pc EXCEPT ![u] = "open"]
            /\ UNCHANGED up_result
    /\ UNCHANGED <<up_req, up_written, up_fd, disk_dir, ino_data, dir_exists>>

\* aiofiles.open(file_path, 'wb'): create the file, or truncate the one there
UpOpen(u) ==
    /\ up_pc[u] = "open"
    /\ LET t == up_req[u].target
           ino == IF disk_dir[t] = NoInode THEN u ELSE disk_dir[t]
       IN /\ disk_dir' = [disk_dir EXCEPT ![t] = ino]
          /\ ino_data' = [ino_data EXCEPT ![ino] = <<>>]
          /\ up_fd' = [up_fd EXCEPT ![u] = ino]
    /\ up_pc' = [up_pc EXCEPT ![u] = "chunk"]
    /\ UNCHANGED <<up_req, up_written, up_result, dir_exists>>

\* One turn of the loop: read a chunk; at the end of the payload close and
\* return; over the cap remove(file_path) and raise; else write the chunk.
\* remove of a missing name is an OSError: the handler removes the name if
\* it exists by then and raises.
UpChunk(u) ==
    /\ up_pc[u] = "chunk"
    /\ LET t == up_req[u].target
           n == Min(ChunkSize, up_req[u].len - up_written[u])
           total == up_written[u] + n
       IN IF n = 0
          THEN /\ UpFinish(u, "ok")
               /\ up_fd' = [up_fd EXCEPT ![u] = NoInode]
               /\ UNCHANGED <<up_written, disk_dir, ino_data>>
          ELSE IF over_limit(total, MaxUploadSize)
          THEN /\ UpFinish(u, IF disk_dir[t] # NoInode THEN "too_large" ELSE "oserror")
               /\ disk_dir' = [disk_dir EXCEPT ![t] = NoInode]
               /\ up_fd' = [up_fd EXCEPT ![u] = NoInode]
               /\ up_written' = [up_written EXCEPT ![u] = total]
               /\ UNCHANGED ino_data
          ELSE /\ ino_data' = [ino_data EXCEPT ![up_fd[u]] =
                                 WriteAt(@, up_written[u], Payload(u, n))]
               /\ up_written' = [up_written EXCEPT ![u] = total]
               /\ UNCHANGED <<up_pc, up_result, up_fd, disk_dir>>
    /\ UNCHANGED <<up_req, dir_exists>>

\* share.quota_bytes of the upload share (models.py ShareInfo)
quota_bytes == 2

\* file_path.stat().st_size of a name; 0 for a name that is not there
st_size(dir, data, t) == IF dir[t] = NoInode THEN 0 ELSE Len(data[dir[t]])

RECURSIVE _walk(_, _, _)
_walk(dir, data, names) ==
    IF names = {} THEN 0
    ELSE LET t == CHOOSE x \in names : TRUE
         IN st_size(dir, data, t) + _walk(dir, data, names \ {t})

\* ShareQuotaManager._calculate_usage: the sizes of the share's files added up
_calculate_usage(dir, data) == _walk(dir, data, Targets)

\* ShareQuotaManager.ensure_within_quota: TRUE when it returns, FALSE when
\* it raises ShareQuotaExceededError
ensure_within_quota(quota, usage) == ~(usage > quota)

\* An exception raised at an await inside the try block while the file is
\* open (upload_file.read or f.write).  The with block closes the file.  An
\* OSError reaches the handler, which removes the name if it exists; a
\* CancelledError (client disconnect, task cancellation) or any other
\* exception of the upload stream is not an OSError and propagates.
UpExceptions == {"OSError", "CancelledError"}

UpRaise(u, exc) ==
    /\ up_pc[u] = "chunk"
    /\ IF exc = "OSError"
       THEN /\ UpFinish(u, "oserror")
            /\ disk_dir' = [disk_dir EXCEPT ![up_req[u].target] = NoInode]
       ELSE /\ UpFinish(u, "cancelled")
            /\ UNCHANGED disk_dir
    /\ up_fd' = [up_fd EXCEPT ![u] = NoInode]
    /\ UNCHANGED <<up_req, up_written, ino_data, dir_exists>>

\* -------------------------------------------------------- direct transfer
\* src/app/direct_transfer.py DirectTransferStore, src/app/api.py
\* download_direct_transfer.  Every method body under self._lock has no await
\* in it, so each is one step.  Transfer ids are drawn fresh (_allocate_locked
\* retries until the id is free); time is a counter of ticks.

VARIABLES dt_entries, dt_meta, dt_payload, dt_next_id, dt_now, dt_fate,
          dl_pc, dl_req, dl_result

transferVars == <<dt_entries, dt_meta, dt_payload, dt_next_id, dt_now, dt_fate,
                  dl_pc, dl_req, dl_result>>

\* Transfers created in a run.
MaxTransfers == 1

\* Download requests followed.
NumDownloads == 2

\* Clock ticks in a run.
MaxTime == 2

TransferIds == 1..MaxTransfers

Downloads == 1..NumDownloads

DtUsers == {"alice", "bob"}

\* expires_at is None
NoExpiry == -1

NoMeta == [sender |-> "", recipient |-> "", expires_at |-> NoExpiry]

NoDownload == [id |-> 0, user |-> ""]

\* _prune_locked: the entries that stay
Kept(entries, meta, payload, now) ==
    {id \in entries :
        /\ ~(meta[id].expires_at # NoExpiry /\ meta[id].expires_at < now)
        /\ id \in payload}

\* prepare_download without the pop of the entry
pop_entry_keep(entries, id) == entries

\* self._entries.pop(transfer_id, None)
pop_entry(entries, id) == entries \ {id}

TransferIdle ==
    /\ dt_entries = {}
    /\ dt_meta = [id \in TransferIds |-> NoMeta]
    /\ dt_payload = {}
    /\ dt_next_id = 1
    /\ dt_now = 0
    /\ dt_fate = [id \in TransferIds |-> "none"]
    /\ dl_pc = [r \in Downloads |-> "idle"]
    /\ dl_req = [r \in Downloads |-> NoDownload]
    /\ dl_result = [r \in Downloads |-> "none"]

TransferInit == TransferIdle

\* the fate of the transfers a prune removes
PruneFate(kept) ==
    [id \in TransferIds |->
        IF id \in dt_entries /\ id \notin kept THEN "expired" ELSE dt_fate[id]]

\* time passes
DtTick ==
    /\ dt_now < MaxTime
    /\ dt_now' = dt_now + 1
    /\ UNCHANGED <<dt_entries, dt_meta, dt_payload, dt_next_id, dt_fate,
                   dl_pc, dl_req, dl_result>>

\* create_transfer, the sender never being the recipient (api.py 780)
create_transfer(sender, recipient, expires_in) ==
    /\ dt_next_id <= MaxTransfers
    /\ sender # recipient
    /\ LET kept == Kept(dt_entries, dt_meta, dt_payload, dt_now)
           id == dt_next_id
           expires_at == IF expires_in > 0 THEN dt_now + expires_in ELSE NoExpiry
       IN /\ dt_entries' = kept \cup {id}
          /\ dt_payload' = (dt_payload \ (dt_entries \ kept)) \cup {id}
          /\ dt_meta' = [dt_meta EXCEPT ![id] =
                [sender |-> sender, recipient |-> recipient, expires_at |-> expires_at]]
          /\ dt_fate' = [PruneFate(kept) EXCEPT ![id] = "pending"]
    /\ dt_next_id' = dt_next_id + 1
    /\ UNCHANGED <<dt_now, dl_pc, dl_req, dl_result>>

\* GET /direct-transfer/download/{id} arrives for a transfer that was created;
\* requests are numbered in their order of arrival
DlIssue(r, id, user) ==
    /\ dl_pc[r] = "idle"
    /\ \A q \in Downloads : q < r => dl_pc[q] # "idle"
    /\ id < dt_next_id
    /\ dl_pc' = [dl_pc EXCEPT ![r] = "issued"]
    /\ dl_req' = [dl_req EXCEPT ![r] = [id |-> id, user |-> user]]
    /\ UNCHANGED <<dt_entries, dt_meta, dt_payload, dt_next_id, dt_now, dt_fate,
                   dl_result>>

\* prepare_download, and the handler's open of the payload
prepare_download(r) ==
    /\ dl_pc[r] = "issued"
    /\ LET id == dl_req[r].id
           kept == Kept(dt_entries, dt_meta, dt_payload, dt_now)
           payload == dt_payload \ (dt_entries \ kept)
       IN /\ dt_payload' = payload
          /\ IF id \notin kept
             THEN /\ dl_result' = [dl_result EXCEPT ![r] = "404"]
                  /\ dl_pc' = [dl_pc EXCEPT ![r] = "done"]
                  /\ dt_entries' = kept
                  /\ dt_fate' = PruneFate(kept)
             ELSE IF dt_meta[id].recipient # dl_req[r].user
             THEN /\ dl_result' = [dl_result EXCEPT ![r] = "403"]
                  /\ dl_pc' = [dl_pc EXCEPT ![r] = "done"]
                  /\ dt_entries' = kept
                  /\ dt_fate' = PruneFate(kept)
             ELSE IF id \notin payload
             THEN /\ dl_result' = [dl_result EXCEPT ![r] = "404"]
                  /\ dl_pc' = [dl_pc EXCEPT ![r] = "done"]
                  /\ dt_entries' = kept \ {id}
                  /\ dt_fate' = [PruneFate(kept) EXCEPT ![id] = "expired"]
             ELSE /\ dl_result' = [dl_result EXCEPT ![r] = "ok"]
                  /\ dl_pc' = [dl_pc EXCEPT ![r] = "streaming"]
                  /\ dt_entries' = pop_entry(kept, id)
                  /\ dt_fate' = [PruneFate(kept) EXCEPT ![id] = "delivered"]
    /\ UNCHANGED <<dt_meta, dt_next_id, dt_now, dl_req>>

\* the response was streamed: cleanup_after_download deletes the payload
cleanup_after_download(r) ==
    /\ dl_pc[r] = "streaming"
    /\ dl_pc' = [dl_pc EXCEPT ![r] = "done"]
    /\ dt_payload' = dt_payload \ {dl_req[r].id}
    /\ UNCHANGED <<dt_entries, dt_meta, dt_next_id, dt_now, dt_fate, dl_req,
                   dl_result>>

\* A variant of the access test of delete_transfer that lets every user in.
has_access_any(entry, username) == TRUE

\* username in {entry.sender, entry.recipient}
has_access(entry, username) == username \in {entry.sender, entry.recipient}

\* delete_transfer
delete_transfer(id, user) ==
    /\ id < dt_next_id
    /\ LET kept == Kept(dt_entries, dt_meta, dt_payload, dt_now)
           payload == dt_payload \ (dt_entries \ kept)
       IN IF id \notin kept
          THEN /\ dt_entries' = kept
               /\ dt_payload' = payload
               /\ dt_fate' = PruneFate(kept)
          ELSE IF ~has_access(dt_meta[id], user)
          THEN /\ dt_entries' = kept
               /\ dt_payload' = payload
               /\ dt_fate' = PruneFate(kept)
          ELSE /\ dt_entries' = kept \ {id}
               /\ dt_payload' = payload \ {id}
               /\ dt_fate' = [PruneFate(kept) EXCEPT ![id] = "cancelled"]
    /\ UNCHANGED <<dt_meta, dt_next_id, dt_now, dl_pc, dl_req, dl_result>>

\* ------------------------------------------- direct transfer, file level
\* The same store with its files: the temp payload create_transfer writes
\* before it takes the lock, the payload files, and transfers.json.  A
\* payload is counted in pieces of one chunk, max_size is ui.maxUploadSize
\* as for an upload, and temp names are drawn fresh.

VARIABLES cr_pc, cr_len, dt_tmp, dt_size, dt_len, dt_persisted

tstoreVars == <<cr_pc, cr_len, dt_tmp, dt_size, dt_len, dt_persisted>>

\* One create request per transfer of a run.
Creates == 1..MaxTransfers

\* A variant of the read loop that ends at once.
end_of_stream_any(written, len) == TRUE

\* chunk = await upload_file.read(...); if not chunk: break
end_of_stream(written, len) == written = len

\* json.dump of the entries held in memory, renamed over transfers.json
_save_locked(entries) == entries

TStoreIdle ==
    /\ cr_pc = [c \in Creates |-> "idle"]
    /\ cr_len = [c \in Creates |-> 0]
    /\ dt_tmp = [c \in Creates |-> NoInode]
    /\ dt_size = [id \in TransferIds |-> 0]
    /\ dt_len = [id \in TransferIds |-> 0]
    /\ dt_persisted = {}

\* A variant that persists the entries added and never a removal.
SaveIfAdded == dt_persisted' = dt_persisted \cup dt_entries'

\* every method saves when it changed the entries
SaveIfChanged ==
    dt_persisted' = IF dt_entries' # dt_entries THEN _save_locked(dt_entries')
                    ELSE dt_persisted

\* create_transfer is called with an upload of len pieces:
\* _write_upload_to_path opens the temp file
CrBegin(c, len) ==
    /\ cr_pc[c] = "idle"
    /\ \A q \in Creates : q < c => cr_pc[q] # "idle"
    /\ cr_pc' = [cr_pc EXCEPT ![c] = "writing"]
    /\ cr_len' = [cr_len EXCEPT ![c] = len]
    /\ dt_tmp' = [dt_tmp EXCEPT ![c] = 0]
    /\ UNCHANGED <<dt_size, dt_len, dt_persisted, transferVars>>

\* one turn of the loop of _write_upload_to_path with a chunk read: over
\* max_size it raises and create_transfer deletes the temp file
CrWrite(c) ==
    /\ cr_pc[c] = "writing"
    /\ ~end_of_stream(dt_tmp[c], cr_len[c])
    /\ IF dt_tmp[c] + 1 > MaxUploadSize
       THEN /\ cr_pc' = [cr_pc EXCEPT ![c] = "failed"]
            /\ dt_tmp' = [dt_tmp EXCEPT ![c] = NoInode]
       ELSE /\ dt_tmp' = [dt_tmp EXCEPT ![c] = @ + 1]
            /\ UNCHANGED cr_pc
    /\ UNCHANGED <<cr_len, dt_size, dt_len, dt_persisted, transferVars>>

\* the read or the write raises: an Exception makes create_transfer delete
\* the temp file, a CancelledError is not an Exception and leaves it
CrRaise(c, exc) ==
    /\ cr_pc[c] = "writing"
    /\ cr_pc' = [cr_pc EXCEPT ![c] = "failed"]
    /\ dt_tmp' = [dt_tmp EXCEPT ![c] = IF exc = "CancelledError" THEN @ ELSE NoInode]
    /\ UNCHANGED <<cr_len, dt_size, dt_len, dt_persisted, transferVars>>

\* the stream ended: under the lock prune, allocate, rename the temp file
\* to its final name, add the entry and save
CrCommit(c, sender, recipient, expires_in) ==
    /\ cr_pc[c] = "writing"
    /\ end_of_stream(dt_tmp[c], cr_len[c])
    /\ create_transfer(sender, recipient, expires_in)
    /\ cr_pc' = [cr_pc EXCEPT ![c] = "done"]
    /\ dt_size' = [dt_size EXCEPT ![dt_next_id] = dt_tmp[c]]
    /\ dt_len' = [dt_len EXCEPT ![dt_next_id] = cr_len[c]]
    /\ dt_tmp' = [dt_tmp EXCEPT ![c] = NoInode]
    /\ SaveIfChanged
    /\ UNCHANGED cr_len

\* list_transfers: what it changes is what its prune removes
list_transfers ==
    /\ dt_entries' = Kept(dt_entries, dt_meta, dt_payload, dt_now)
    /\ dt_payload' = dt_payload \ (dt_entries \ dt_entries')
    /\ dt_fate' = PruneFate(dt_entries')
    /\ SaveIfChanged
    /\ UNCHANGED <<dt_meta, dt_next_id, dt_now, dl_pc, dl_req, dl_result,
                   cr_pc, cr_len, dt_tmp, dt_size, dt_len>>

\* ---------------------------------------------- direct transfer, streaming
\* src/app/api.py download_direct_transfer after prepare_download returned:
\* the payload is opened and streamed piece by piece, and
\* cleanup_after_download is the response's BackgroundTask, which the
\* framework awaits once the response has been sent: after the last piece,
\* or when the client's disconnect ended the sending.  On an error of the
\* open the handler calls it itself; an exception raised inside stream_file
\* ends the response without its background task.

VARIABLES dl_sent, dl_end

streamVars == <<dl_sent, dl_end>>

StreamIdle ==
    /\ dl_sent = [r \in Downloads |-> 0]
    /\ dl_end = [r \in Downloads |-> "none"]

\* file_path.open("rb") raises OSError: cleanup_after_download, then 500
StreamOpenError(r) ==
    /\ dl_sent[r] = 0
    /\ cleanup_after_download(r)
    /\ dl_end' = [dl_end EXCEPT ![r] = "open_error"]
    /\ UNCHANGED <<dl_sent, tstoreVars>>

\* stream_file yields one chunk
StreamChunk(r) ==
    /\ dl_pc[r] = "streaming"
    /\ dl_sent[r] < dt_size[dl_req[r].id]
    /\ dl_sent' = [dl_sent EXCEPT ![r] = @ + 1]
    /\ UNCHANGED <<dl_end, transferVars, tstoreVars>>

\* the read returns no chunk: the response is sent, the background task runs
StreamEnd(r) ==
    /\ dl_pc[r] = "streaming"
    /\ dl_sent[r] = dt_size[dl_req[r].id]
    /\ cleanup_after_download(r)
    /\ dl_end' = [dl_end EXCEPT ![r] = "complete"]
    /\ UNCHANGED <<dl_sent, tstoreVars>>

\* the client disconnects: the sending is cancelled, the background task runs
StreamDisconnect(r) ==
    /\ cleanup_after_download(r)
    /\ dl_end' = [dl_end EXCEPT ![r] = "client_abort"]
    /\ UNCHANGED <<dl_sent, tstoreVars>>

\* file_obj.read raises inside stream_file: the finally closes the file and
\* the exception ends the response; nothing calls cleanup_after_download
StreamReadError(r) ==
    /\ dl_pc[r] = "streaming"
    /\ dl_pc' = [dl_pc EXCEPT ![r] = "done"]
    /\ dl_end' = [dl_end EXCEPT ![r] = "read_error"]
    /\ UNCHANGED <<dt_entries, dt_meta, dt_payload, dt_next_id, dt_now, dt_fate,
                   dl_req, dl_result, dl_sent, tstoreVars>>

\* what the response task of request r does next
StreamStep(r) ==
    \/ StreamOpenError(r)
    \/ StreamChunk(r)
    \/ StreamEnd(r)
    \/ StreamDisconnect(r)
    \/ StreamReadError(r)

\* ------------------------------------------------------------ file API
\* src/app/api.py list_files, upload_file, make_directory, rename_item,
\* delete_items, download_file over src/app/storage_server.py and
\* src/app/fs.py.  api_files holds the entries that exist, as
\* [root, path] with path the names below the share's directory;
\* api_calls holds the storage gateway calls the last request made and
\* api_prev_files the entries before it.

VARIABLES api_rules, api_files, api_prev_files, api_req, api_calls, api_status,
          api_count

apiVars == <<api_rules, api_files, api_prev_files, api_req, api_calls, api_status,
             api_count>>

\* API requests in a run.
MaxApiCalls == 1

ApiOps == {"list", "download", "upload", "mkdir", "rename", "delete"}

NoRequest == [op |-> "none", user |-> NoUser, root |-> "pub", paths |-> <<>>, ip |-> BadIp]

Entry(root, path) == [root |-> root, path |-> path]

\* A safe_join result as names below the share's directory
SjBelow(r) ==
    [ok |-> r.kind = "ok",
     path |-> IF r.kind = "ok" THEN SubSeq(r.path, Len(ShareRoot) + 1, Len(r.path))
              ELSE <<>>]

\* safe_join(share.path, rel_path)
Below(rel_path) == SjBelow(safe_join(ShareRoot, rel_path, {}))

Under(path, dir) == StartsWith(path, dir)

Prefixes(path) == { SubSeq(path, 1, k) : k \in 0..Len(path) }

\* The uploaded file's name and the new name of a rename.
UploadName == <<"n">>

NewName == <<"m">>

Sibling(path, name) ==
    IF path = <<>> THEN <<name>> ELSE Append(SubSeq(path, 1, Len(path) - 1), name)

\* The storage functions below take b, the safe_join result of their path.

\* fs.list_directory / open_file_for_download: the entry must exist
read_entry(files, root, b) ==
    [ok |-> b.ok /\ Entry(root, b.path) \in files, files |-> files]

\* fs.save_uploaded_file: the directory is made, the file must not exist
save_uploaded_file(files, root, b) ==
    IF ~b.ok \/ Entry(root, Append(b.path, UploadName)) \in files
    THEN [ok |-> FALSE, files |-> files]
    ELSE [ok |-> TRUE,
          files |-> files \cup { Entry(root, q) : q \in Prefixes(Append(b.path, UploadName)) }]

\* fs.create_directory: must not exist; makedirs creates the parents
create_directory(files, root, b) ==
    IF ~b.ok \/ Entry(root, b.path) \in files THEN [ok |-> FALSE, files |-> files]
    ELSE [ok |-> TRUE, files |-> files \cup { Entry(root, q) : q \in Prefixes(b.path) }]

\* fs.rename_file_or_directory: the source must exist, the sibling must not
rename_file_or_directory(files, root, b) ==
    IF ~b.ok \/ b.path = <<>> \/ Entry(root, b.path) \notin files
       \/ Entry(root, Sibling(b.path, NewName)) \in files
    THEN [ok |-> FALSE, files |-> files]
    ELSE [ok |-> TRUE,
          files |-> { IF e.root = root /\ Under(e.path, b.path)
                      THEN Entry(root, Sibling(b.path, NewName)
                                       \o SubSeq(e.path, Len(b.path) + 1, Len(e.path)))
                      ELSE e : e \in files }]

\* fs.delete_file_or_directory: must exist; a directory goes with its content
delete_file_or_directory(files, root, b) ==
    IF ~b.ok \/ Entry(root, b.path) \notin files THEN [ok |-> FALSE, files |-> files]
    ELSE [ok |-> TRUE,
          files |-> { e \in files : ~(e.root = root /\ Under(e.path, b.path)) }]

\* StorageServer: the gateway method each endpoint calls
storage_server(files, op, root, b) ==
    CASE op = "upload" -> save_uploaded_file(files, root, b)
      [] op = "mkdir" -> create_directory(files, root, b)
      [] op = "rename" -> rename_file_or_directory(files, root, b)
      [] op = "delete" -> delete_file_or_directory(files, root, b)
      [] OTHER -> read_entry(files, root, b)

Call(op, root, path) == [op |-> op, root |-> root, path |-> path]

\* The entries on disk at the start: the shares' directories, a directory
\* with a file in it, and a file.
InitialFiles ==
    { Entry(r, <<>>) : r \in SharePool }
        \cup { Entry("pub", << <<"d">> >>), Entry("pub", << <<"d">>, <<"a">> >>),
               Entry("priv", << <<"e">> >>) }

ApiIdle ==
    /\ api_rules = <<>>
    /\ api_files = InitialFiles
    /\ api_prev_files = InitialFiles
    /\ api_req = NoRequest
    /\ api_calls = <<>>
    /\ api_status = "none"
    /\ api_count = 0

ApiInit ==
    /\ api_rules \in SeqsUpTo(RulePool, 1)
    /\ api_files = InitialFiles
    /\ api_prev_files = InitialFiles
    /\ api_req = NoRequest
    /\ api_calls = <<>>
    /\ api_status = "none"
    /\ api_count = 0

\* The response of an endpoint: 403 when check_api_access denied, 413
\* for an upload over the size cap, else the gateway call's outcome (done).
ApiRespond(op, root, path, too_large, allowed, done) ==
    IF ~allowed
    THEN /\ api_status' = "403"
         /\ api_calls' = <<>>
         /\ api_files' = api_files
    ELSE IF too_large
    THEN /\ api_status' = "413"
         /\ api_calls' = <<>>
         /\ api_files' = api_files
    ELSE /\ api_status' = IF done.ok THEN "200" ELSE "error"
         /\ api_calls' = <<Call(op, root, path)>>
         /\ api_files' = done.files

\* The shape shared by list_files, download_file, upload_file,
\* make_directory and rename_item: check_api_access, then the gateway.
ApiEndpoint(op, user, root, path, ip, too_large) ==
    /\ api_count < MaxApiCalls
    /\ api_count' = api_count + 1
    /\ api_req' = [op |-> op, user |-> user, root |-> root, paths |-> <<path>>, ip |-> ip]
    /\ api_prev_files' = api_files
    /\ ApiRespond(op, root, path, too_large,
                  check_api_access(api_rules, user, op, root, path, ip).allowed,
                  storage_server(api_files, op, root, Below(path)))
    /\ UNCHANGED api_rules

list_files(user, root, path, ip) == ApiEndpoint("list", user, root, path, ip, FALSE)

download_file(user, root, path, ip) == ApiEndpoint("download", user, root, path, ip, FALSE)

upload_file(user, root, path, ip, too_large) ==
    ApiEndpoint("upload", user, root, path, ip, too_large)

make_directory(user, root, path, ip) == ApiEndpoint("mkdir", user, root, path, ip, FALSE)

rename_item(user, root, path, ip) == ApiEndpoint("rename", user, root, path, ip, FALSE)

\* delete_items: the loop over delete_req.paths, each path checked on its own
RECURSIVE DeleteLoop(_, _, _, _, _)

\* one turn of the loop, then the rest of it
DeleteStep(user, root, paths, ip, files, allowed, done) ==
    IF ~allowed THEN DeleteLoop(files, user, root, Tail(paths), ip)
    ELSE [files |-> DeleteLoop(done.files, user, root, Tail(paths), ip).files,
          calls |-> <<Call("delete", root, Head(paths))>>
                        \o DeleteLoop(done.files, user, root, Tail(paths), ip).calls]

DeleteLoop(files, user, root, paths, ip) ==
    IF paths = <<>> THEN [files |-> files, calls |-> <<>>]
    ELSE DeleteStep(user, root, paths, ip, files,
             check_api_access(api_rules, user, "delete", root, Head(paths), ip).allowed,
             storage_server(files, "delete", root, Below(Head(paths))))

DeleteResult(r) ==
    /\ api_files' = r.files
    /\ api_calls' = r.calls

delete_items(user, root, paths, ip) ==
    /\ api_count < MaxApiCalls
    /\ api_count' = api_count + 1
    /\ api_req' = [op |-> "delete", user |-> user, root |-> root, paths |-> paths, ip |-> ip]
    /\ api_prev_files' = api_files
    /\ DeleteResult(DeleteLoop(api_files, user, root, paths, ip))
    /\ api_status' = "200"
    /\ UNCHANGED api_rules

\* Path lists of a delete request.
DeletePaths ==
    { <<p>> : p \in RelPathPool } \cup { <<p, <<"e">> >> : p \in RelPathPool }

\* -------------------------------------------------------------- JSON stores
\* src/app/user_store.py, share_store.py, server_store.py _atomic_write and
\* src/app/direct_transfer.py _save_locked: the same four statements in each.
\* A file's content is the sequence of pieces json.dump wrote to it; the
\* content of write number k is the piece k repeated FilePieces times.  The
\* writers are synchronous functions called on the event loop, so one write
\* is in progress at a time; a reader (the watchdog thread's reload, or the
\* process after a restart) may read between any two steps.

VARIABLES st_files, st_pc, st_store, st_old, st_writes, st_read

storeVars == <<st_files, st_pc, st_store, st_old, st_writes, st_read>>

\* Writes followed.
MaxWrites == 2

\* f.write calls json.dump makes for one document.
FilePieces == 2

\* data/users.json, data/shares.json, data/server.json,
\* direct_transfers/transfers.json
Stores == {"users", "shares", "server", "transfers"}

STORE_PATH(store) == [stem |-> store, suffix |-> "json"]

\* A variant that writes to the live file itself.
with_suffix_same(path, suffix) == path

\* Path.with_suffix
with_suffix(path, suffix) == [path EXCEPT !.suffix = suffix]

StorePaths == [stem : Stores, suffix : {"json", "tmp"}]

\* The content of a path that does not exist.
Absent == <<-1>>

Document(k) == [i \in 1..FilePieces |-> k]

Complete(content) == \E k \in 1..(MaxWrites + 1) : content = Document(k)

StoreIdle ==
    /\ st_files = [p \in StorePaths |-> Absent]
    /\ st_pc = "idle"
    /\ st_store = "users"
    /\ st_old = Absent
    /\ st_writes = 0
    /\ st_read = Absent

\* tmp_path = STORE_PATH.with_suffix(".tmp"); tmp_path.open("w")
AtomicWriteOpen(store) ==
    /\ st_pc \in {"idle", "aborted"}
    /\ st_writes < MaxWrites
    /\ st_writes' = st_writes + 1
    /\ st_store' = store
    /\ st_old' = st_files[STORE_PATH(store)]
    /\ st_files' = [st_files EXCEPT ![with_suffix(STORE_PATH(store), "tmp")] = <<>>]
    /\ st_pc' = "dump"
    /\ UNCHANGED st_read

\* json.dump(data, f): one piece written
AtomicWriteDump ==
    /\ st_pc = "dump"
    /\ Len(st_files[with_suffix(STORE_PATH(st_store), "tmp")]) < FilePieces
    /\ st_files' = [st_files EXCEPT ![with_suffix(STORE_PATH(st_store), "tmp")] =
                       Append(@, st_writes)]
    /\ UNCHANGED <<st_pc, st_store, st_old, st_writes, st_read>>

\* the with block ends, then tmp_path.replace(STORE_PATH)
AtomicWriteReplace ==
    /\ st_pc = "dump"
    /\ Len(st_files[with_suffix(STORE_PATH(st_store), "tmp")]) = FilePieces
    /\ st_files' = [p \in StorePaths |->
                       IF p = STORE_PATH(st_store)
                       THEN st_files[with_suffix(STORE_PATH(st_store), "tmp")]
                       ELSE IF p = with_suffix(STORE_PATH(st_store), "tmp")
                       THEN Absent
                       ELSE st_files[p]]
    /\ st_pc' = "idle"
    /\ UNCHANGED <<st_store, st_old, st_writes, st_read>>

\* The process is aborted before the rename; the files stay as they are.
AtomicWriteAbort ==
    /\ st_pc = "dump"
    /\ st_pc' = "aborted"
    /\ UNCHANGED <<st_files, st_store, st_old, st_writes, st_read>>

\* _load_store: STORE_PATH.open("r"), json.load
LoadStore(store) ==
    /\ st_read' = st_files[STORE_PATH(store)]
    /\ UNCHANGED <<st_files, st_pc, st_store, st_old, st_writes>>

\* ------------------------------------------------ configuration and users
\* src/app/config.py ConfigManager, src/app/user_store.py, src/app/auth.py,
\* src/app/api.py register_user.  A string is a sequence of characters.  The
\* YAML file is a version number and whether it loads; what it holds besides
\* the version is fixed.  cf_last and cf_prev are the last two requests
\* with their answers, cf_before the snapshot before the last reload.

VARIABLES cf_config, cf_yaml, cf_users_json, cf_last, cf_prev, cf_before, cf_ops

configVars == <<cf_config, cf_yaml, cf_users_json, cf_last, cf_prev, cf_before, cf_ops>>

\* Requests and file events in a run.
MaxConfigOps == 3

\* len(username) < 3
MinUsernameLen == 3

\* len(password) < 6
MinPasswordLen == 6

UsernamePool ==
    { <<"b", "o", "b">>, <<"a", ":", "b">>, <<"b", "o", "b", " ">>, <<"a", "l">> }

PasswordPool ==
    { <<"s", "e", "c", "r", "e", "t">>, <<"s", ":", "c", "r", "e", "t">>,
      <<"s", "h", "o", "r", "t">> }

\* pwd_context.hash and pwd_context.verify
hash_password(password) == [scheme |-> "bcrypt", of |-> password]

verify_password(plain_password, hashed_password, is_bcrypt) ==
    IF is_bcrypt THEN hashed_password = hash_password(plain_password)
    ELSE plain_password = hashed_password.of

UserInfo(name, pass_hash, is_bcrypt) ==
    [name |-> name, pass_hash |-> pass_hash, is_bcrypt |-> is_bcrypt]

\* Config(): no users, no rules
DefaultConfig == [users |-> <<>>, rules |-> <<>>, ver |-> 0]

\* the users and rules of chfs.yaml
YamlUsers ==
    << UserInfo(<<"a", "d", "m">>, [scheme |-> "plain", of |-> <<"p", "w">>], FALSE) >>

YamlRules == << <<"a", "d", "m">> >>

\* ConfigManager._parse_config
_parse_config(data) ==
    [users |-> YamlUsers, rules |-> YamlRules, ver |-> data.ver]

\* A variant of load_config that sets the default configuration on failure.
load_config_reset(config, yaml) ==
    IF yaml.ok THEN _parse_config(yaml) ELSE DefaultConfig

\* ConfigManager.load_config: the value of self.config after the call
load_config(config, yaml) ==
    IF yaml.ok THEN _parse_config(yaml) ELSE config

\* ConfigManager.get_user_by_name: the first user with that name
RECURSIVE FindUser(_, _)
FindUser(users, name) ==
    IF users = <<>> THEN <<>>
    ELSE IF Head(users).name = name THEN <<Head(users)>>
    ELSE FindUser(Tail(users), name)

get_user_by_name(config, name) == FindUser(config.users, name)

\* authenticate_user
authenticate_user(config, username, password) ==
    LET user == get_user_by_name(config, username)
    IN /\ user # <<>>
       /\ verify_password(password, user[1].pass_hash, user[1].is_bcrypt)

\* create_basic_auth_header: base64 of "username:password"
create_basic_auth_header(username, password) ==
    [scheme |-> "Basic", b64 |-> username \o <<":">> \o password]

\* the part of a string before its first ':' (all of it if it has none)
RECURSIVE BeforeColon(_)
BeforeColon(str) ==
    IF str = <<>> \/ Head(str) = ":" THEN <<>>
    ELSE <<Head(str)>> \o BeforeColon(Tail(str))

\* parse_basic_auth: decoded.split(':', 1)
parse_basic_auth(authorization) ==
    LET decoded == authorization.b64
        username == BeforeColon(decoded)
    IN IF authorization.scheme # "Basic" \/ Len(username) = Len(decoded)
       THEN [ok |-> FALSE, username |-> <<>>, password |-> <<>>]
       ELSE [ok |-> TRUE, username |-> username,
             password |-> SubSeq(decoded, Len(username) + 2, Len(decoded))]

\* get_current_user on a request with that header: 200 or 401
get_current_user(config, authorization) ==
    LET credentials == parse_basic_auth(authorization)
    IN IF /\ credentials.ok
          /\ authenticate_user(config, credentials.username, credentials.password)
       THEN 200 ELSE 401

NoConfigOp == [op |-> "none", name |-> <<>>, password |-> <<>>, status |-> 0]

ConfigIdle ==
    /\ cf_config = DefaultConfig
    /\ cf_yaml = [ok |-> TRUE, ver |-> 1]
    /\ cf_users_json = <<>>
    /\ cf_last = NoConfigOp
    /\ cf_prev = NoConfigOp
    /\ cf_before = DefaultConfig
    /\ cf_ops = 0

\* create_app: load_config(config_path) of a file that loads
ConfigInit ==
    /\ cf_config = load_config(DefaultConfig, [ok |-> TRUE, ver |-> 1])
    /\ cf_yaml = [ok |-> TRUE, ver |-> 1]
    /\ cf_users_json = <<>>
    /\ cf_last = NoConfigOp
    /\ cf_prev = NoConfigOp
    /\ cf_before = DefaultConfig
    /\ cf_ops = 0

ConfigOp(op, name, password, status) ==
    /\ cf_ops < MaxConfigOps
    /\ cf_ops' = cf_ops + 1
    /\ cf_prev' = cf_last
    /\ cf_last' = [op |-> op, name |-> name, password |-> password, status |-> status]

\* user_store.add_registered_user: the name is taken if an entry has it,
\* whatever the case of its letters (the pools hold lower case only)
NameTaken(entries, username) ==
    \E i \in 1..Len(entries) : entries[i].name = username

\* POST /register
register_user(username_in, password, confirm) ==
    LET username == strip(username_in)
    IN IF \/ username = <<>>
          \/ Len(username) < MinUsernameLen
          \/ Len(password) < MinPasswordLen
          \/ password # confirm
       THEN /\ ConfigOp("register", username, password, 400)
            /\ UNCHANGED <<cf_config, cf_yaml, cf_users_json, cf_before>>
       ELSE IF \/ get_user_by_name(cf_config, username) # <<>>
               \/ NameTaken(cf_users_json, username)
       THEN /\ ConfigOp("register", username, password, 409)
            /\ UNCHANGED <<cf_config, cf_yaml, cf_users_json, cf_before>>
       ELSE /\ ConfigOp("register", username, password, 200)
            /\ cf_users_json' = Append(cf_users_json,
                    [name |-> username, pass_hash |-> hash_password(password)])
            /\ cf_config' = [cf_config EXCEPT
                    !.users = Append(@, UserInfo(username, hash_password(password), TRUE)),
                    !.rules = Append(@, username)]
            /\ UNCHANGED <<cf_yaml, cf_before>>

\* GET /session by a client that signs in as username with password
get_session(username, password) ==
    /\ ConfigOp("session", username, password,
                get_current_user(cf_config, create_basic_auth_header(username, password)))
    /\ UNCHANGED <<cf_config, cf_yaml, cf_users_json, cf_before>>

\* chfs.yaml is rewritten on disk, to a file that loads or one that does not
EditYaml(ok) ==
    /\ cf_yaml' = [ok |-> ok, ver |-> cf_yaml.ver + 1]
    /\ ConfigOp("edit", <<>>, <<>>, 0)
    /\ UNCHANGED <<cf_config, cf_users_json, cf_before>>

\* ConfigManager._on_config_changed, after a change of the file
_on_config_changed ==
    /\ cf_last.op = "edit"
    /\ cf_before' = cf_config
    /\ cf_config' = load_config(cf_config, cf_yaml)
    /\ ConfigOp("reload", <<>>, <<>>, IF cf_yaml.ok THEN 200 ELSE 500)
    /\ UNCHANGED <<cf_yaml, cf_users_json>>

\* -------------------------------------------------------- ranged download
\* src/app/api.py download_file, src/app/utils.py parse_http_range,
\* src/app/models.py HttpRange.resolve, src/app/fs.py open_file_for_download,
\* for a regular file that exists and that the user may read.  The Range
\* header is its unit ("bytes=") and the characters after it; an optional
\* number is [some, v].

VARIABLES rg_size, rg_header, rg_result

rangeVars == <<rg_size, rg_header, rg_result>>

\* File sizes followed, in bytes.
MaxFileSize == 2

\* Characters of a range specification.
MaxSpecLen == 3

None == [some |-> FALSE, v |-> 0]

Some(v) == [some |-> TRUE, v |-> v]

Digits == {"0", "1", "2"}

DigitValue(c) == CASE c = "0" -> 0 [] c = "1" -> 1 [] c = "2" -> 2

IsDigits(str) == str # <<>> /\ \A k \in 1..Len(str) : str[k] \in Digits

RECURSIVE DigitsValue(_)
DigitsValue(str) ==
    IF str = <<>> THEN 0
    ELSE 10 * DigitsValue(SubSeq(str, 1, Len(str) - 1)) + DigitValue(str[Len(str)])

\* int(str): None stands for ValueError
int(str) ==
    IF IsDigits(str) THEN Some(DigitsValue(str))
    ELSE IF str # <<>> /\ Head(str) = "-" /\ IsDigits(Tail(str))
    THEN Some(0 - DigitsValue(Tail(str)))
    ELSE None

HttpRange(start, end, suffix_length) ==
    [parsed |-> TRUE, start |-> start, end |-> end, suffix_length |-> suffix_length]

\* parse_http_range returned None
NoRange == [parsed |-> FALSE, start |-> None, end |-> None, suffix_length |-> None]

\* the header is absent
NoHeader == [unit |-> "", spec |-> <<>>]

\* str.split('-', 1)
RECURSIVE BeforeDash(_)
BeforeDash(str) ==
    IF str = <<>> \/ Head(str) = "-" THEN <<>>
    ELSE <<Head(str)>> \o BeforeDash(Tail(str))

\* parse_http_range
parse_http_range(range_header) ==
    LET range_spec == range_header.spec
    IN IF range_header = NoHeader \/ range_header.unit # "bytes=" THEN NoRange
       ELSE IF range_spec # <<>> /\ Head(range_spec) = "-"
       THEN IF int(Tail(range_spec)).some
            THEN HttpRange(None, None, int(Tail(range_spec)))
            ELSE NoRange
       ELSE IF range_spec # <<>> /\ range_spec[Len(range_spec)] = "-"
       THEN IF int(SubSeq(range_spec, 1, Len(range_spec) - 1)).some
            THEN HttpRange(int(SubSeq(range_spec, 1, Len(range_spec) - 1)), None, None)
            ELSE NoRange
       ELSE IF \E k \in 1..Len(range_spec) : range_spec[k] = "-"
       THEN IF /\ int(BeforeDash(range_spec)).some
               /\ int(SubSeq(range_spec, Len(BeforeDash(range_spec)) + 2,
                              Len(range_spec))).some
            THEN HttpRange(int(BeforeDash(range_spec)),
                           int(SubSeq(range_spec, Len(BeforeDash(range_spec)) + 2,
                                      Len(range_spec))),
                           None)
            ELSE NoRange
       ELSE NoRange

\* the last steps of HttpRange.resolve, on the clamped start and end
ResolveClamped(start, end, content_length) ==
    IF start > content_length - 1
    THEN <<content_length, content_length - 1>>
    ELSE IF end < start /\ end # content_length - 1
    THEN <<start, start>>
    ELSE <<start, end>>

\* HttpRange.resolve
resolve_range(http_range, content_length) ==
    IF http_range.suffix_length.some
    THEN <<Max(0, content_length - http_range.suffix_length.v), content_length - 1>>
    ELSE IF content_length <= 0 THEN <<0, -1>>
    ELSE ResolveClamped(
            Max(0, Min(IF http_range.start.some THEN http_range.start.v ELSE 0,
                       content_length)),
            Max(-1, Min(IF http_range.end.some THEN http_range.end.v
                        ELSE content_length - 1,
                        content_length - 1)),
            content_length)

\* the answer of download_file for the resolved positions: the range check
\* of open_file_for_download raises FileSystemError, which download_file
\* answers with 404
Answer(se, total_size, ranged) ==
    IF se[1] < 0 \/ se[2] >= total_size \/ se[1] > se[2]
    THEN [status |-> 404, start |-> 0, end |-> 0, body |-> 0]
    ELSE [status |-> IF ranged THEN 206 ELSE 200,
          start |-> se[1], end |-> se[2], body |-> se[2] - se[1] + 1]

\* open_file_for_download and download_file
download_answer(http_range, total_size) ==
    IF http_range.parsed
    THEN Answer(resolve_range(http_range, total_size), total_size, TRUE)
    ELSE Answer(<<0, total_size - 1>>, total_size, FALSE)

NoAnswer == [status |-> 0, start |-> 0, end |-> 0, body |-> 0]

SpecChars == Digits \cup {"-"}

RangeHeaders ==
    {NoHeader} \cup
    [unit : {"bytes=", "items="},
     spec : UNION { [1..n -> SpecChars] : n \in 0..MaxSpecLen }]

RangeIdle ==
    /\ rg_size = 0
    /\ rg_header = NoHeader
    /\ rg_result = NoAnswer

RangeInit ==
    /\ rg_size \in 0..MaxFileSize
    /\ rg_header \in RangeHeaders
    /\ rg_result = NoAnswer

\* GET /download of the file with that header
DownloadRange ==
    /\ rg_result = NoAnswer
    /\ rg_result' = download_answer(parse_http_range(rg_header), rg_size)
    /\ UNCHANGED <<rg_size, rg_header>>

\* ------------------------------------------------------------------ rename
\* src/app/storage_server.py StorageServer.rename over src/app/fs.py
\* rename_file_or_directory, with src/app/utils.py validate_filename and
\* sanitize_filename, in one share without symbolic links.  rn_files holds
\* the paths that exist below the share's directory, each a sequence of
\* names; a name and a request's path are strings (sequences of
\* characters, "TAB" a control character, "DEL" the character 0x7f).

VARIABLES rn_files, rn_prev, rn_req, rn_status, rn_count

renameVars == <<rn_files, rn_prev, rn_req, rn_status, rn_count>>

\* Rename requests in a run.
MaxRenames == 2

dangerous_chars == {"<", ">", ":", "\"", "/", "\\", "|", "?", "*"}

control_chars == {"TAB"}

\* validate_filename
validate_filename(filename) ==
    /\ filename # <<>>
    /\ filename \notin {Dot, DotDot}
    /\ \A k \in 1..Len(filename) :
           filename[k] \notin dangerous_chars /\ filename[k] \notin control_chars

\* re.sub(pattern, '', str): the characters of a set removed
RECURSIVE Remove(_, _)
Remove(str, chars) ==
    IF str = <<>> THEN <<>>
    ELSE IF Head(str) \in chars THEN Remove(Tail(str), chars)
    ELSE <<Head(str)>> \o Remove(Tail(str), chars)

\* str.strip(chars): the characters of a set off both ends
RECURSIVE StripChars(_, _)
StripChars(str, chars) ==
    IF str # <<>> /\ Head(str) \in chars THEN StripChars(Tail(str), chars)
    ELSE IF str # <<>> /\ str[Len(str)] \in chars
    THEN StripChars(SubSeq(str, 1, Len(str) - 1), chars)
    ELSE str

\* the last step of sanitize_filename (names here stay below 255 characters)
OrUnnamed(filename) ==
    IF filename = <<>> THEN <<"u", "n", "n", "a", "m", "e", "d">> ELSE filename

\* sanitize_filename
sanitize_filename(filename) ==
    OrUnnamed(StripChars(
        Remove([k \in 1..Len(filename) |->
                    IF filename[k] \in dangerous_chars THEN "_" ELSE filename[k]],
               control_chars \cup {"DEL"}),
        {" ", "."}))

\* the names of str(Path(rel_path).parent): pathlib drops empty and '.'
\* components, parent drops the last one
PathParent(rel_path) ==
    IF PartsLoop(split(rel_path)).parts = <<>> THEN <<>>
    ELSE SubSeq(PartsLoop(split(rel_path)).parts, 1,
                Len(PartsLoop(split(rel_path)).parts) - 1)

\* '/'.join(names)
RECURSIVE JoinPath(_)
JoinPath(names) ==
    IF names = <<>> THEN <<>>
    ELSE IF Len(names) = 1 THEN Head(names)
    ELSE Head(names) \o <<"/">> \o JoinPath(Tail(names))

\* f"{parent_rel_path}/{new_name}".strip('/')
new_rel_path(old_rel_path, new_name) ==
    StripChars(JoinPath(PathParent(old_rel_path)) \o <<"/">> \o new_name, {"/"})

\* os.rename(old_path, new_path) on paths that are not links, new_path
\* absent: OSError when old_path is the share's directory or new_path's
\* directory does not exist; else the entry moves with all below it
os_rename(files, old_path, new_path) ==
    IF old_path = <<>> \/ SubSeq(new_path, 1, Len(new_path) - 1) \notin files
    THEN [ok |-> FALSE, files |-> files]
    ELSE [ok |-> TRUE,
          files |-> { IF Under(e, old_path)
                      THEN new_path \o SubSeq(e, Len(old_path) + 1, Len(e))
                      ELSE e : e \in files }]

\* rename_file_or_directory from the two safe_join results on: both paths
\* inside the share, the source present, the destination absent
RenameChecked(files, old_b, new_b) ==
    IF ~old_b.ok \/ ~new_b.ok \/ old_b.path \notin files \/ new_b.path \in files
    THEN [ok |-> FALSE, files |-> files]
    ELSE os_rename(files, old_b.path, new_b.path)

\* StorageServer.rename: rename_file_or_directory(root_name, rel_path, new_name)
rename(files, rel_path, new_name) ==
    IF ~validate_filename(new_name) THEN [ok |-> FALSE, files |-> files]
    ELSE RenameChecked(files, Below(rel_path),
                       Below(new_rel_path(rel_path, sanitize_filename(new_name))))

\* The share at the start: a directory d with the files a, b and .c in it,
\* and a file m beside d.
RenameTree ==
    { <<>>, << <<"d">> >>, << <<"d">>, <<"a">> >>, << <<"d">>, <<"b">> >>,
      << <<"d">>, <<".", "c">> >>, << <<"m">> >> }

\* Request paths: d/a, d/b, d/x (absent), d, the share itself, d%2Fa.
RenamePaths ==
    { <<"d", "/", "a">>, <<"d", "/", "b">>, <<"d", "/", "x">>, <<"d">>, <<>>,
      <<"d", "%2F", "a">> }

\* New names: m, b, .c, c, ../x, a/b, a\b, .., the empty name, a name with
\* a control character.
RenameNames ==
    { <<"m">>, <<"b">>, <<".", "c">>, <<"c">>, <<".", ".", "/", "x">>,
      <<"a", "/", "b">>, <<"a", "\\", "b">>, DotDot, <<>>, <<"TAB", "m">> }

NoRename == [path |-> <<>>, new_name |-> <<>>]

RenameIdle ==
    /\ rn_files = RenameTree
    /\ rn_prev = RenameTree
    /\ rn_req = NoRename
    /\ rn_status = "none"
    /\ rn_count = 0

\* POST /api/rename by a user the rules allow to write the path
RenameItem(path, new_name) ==
    /\ rn_count < MaxRenames
    /\ rn_count' = rn_count + 1
    /\ rn_req' = [path |-> path, new_name |-> new_name]
    /\ rn_prev' = rn_files
    /\ rn_files' = rename(rn_files, path, new_name).files
    /\ rn_status' = IF rename(rn_files, path, new_name).ok THEN "200" ELSE "400"

\* ------------------------------------------------------- administrative API
\* src/app/api.py require_local_admin and the /api/admin endpoints that
\* depend on it, src/app/auth.py get_current_user, src/app/ipfilter.py
\* get_client_ip.  A host string is [addr, zone]: the address text and the
\* zone after a '%' ("" when there is none); a header that is absent is the
\* empty sequence.

VARIABLES ad_req, ad_status, ad_action, ad_count

adminVars == <<ad_req, ad_status, ad_action, ad_count>>

\* Administrative requests in a run.
MaxAdminCalls == 1

Host(addr, zone) == [addr |-> addr, zone |-> zone]

\* request.client is None
NoClient == Host("none", "")

\* ipaddress.ip_address(host) does not raise
IsAddress(addr) == addr \in {"127.0.0.1", "127.8.8.8", "::1", "10.0.0.5", "2001:db8::1"}

\* addr.is_loopback: 127.0.0.0/8 and ::1
is_loopback(addr) == addr \in {"127.0.0.1", "127.8.8.8", "::1"}

\* get_client_ip: the first X-Forwarded-For entry, then X-Real-IP, then
\* CF-Connecting-IP, then the peer of the connection, then "unknown"
get_client_ip(request) ==
    IF request.forwarded_for # <<>> THEN Head(request.forwarded_for)
    ELSE IF request.real_ip # <<>> THEN Head(request.real_ip)
    ELSE IF request.cf_ip # <<>> THEN Head(request.cf_ip)
    ELSE IF request.client # NoClient THEN request.client
    ELSE Host("unknown", "")

\* A variant of the address check that accepts every address.
local_only_any(client_ip) == TRUE

\* the address check of require_local_admin: client_ip.split('%', 1)[0]
\* parses and is a loopback address
local_only(client_ip) == IsAddress(client_ip.addr) /\ is_loopback(client_ip.addr)

\* require_local_admin with its dependency get_current_user, which is
\* resolved first: 401, 403, or 200 when the endpoint's body is entered
require_local_admin(config, request) ==
    IF get_current_user(config, request.authorization) = 401 THEN 401
    ELSE IF ~local_only(get_client_ip(request)) THEN 403
    ELSE 200

AdminRoutes ==
    {"get_admin_status", "update_share_quota", "update_server_custom_urls",
     "get_admin_users", "delete_admin_user"}

\* the Authorization header is absent
NoAuthorization == [scheme |-> "none", b64 |-> <<>>]

AdminAuthorizations ==
    { NoAuthorization,
      create_basic_auth_header(<<"a", "d", "m">>, <<"p", "w">>),
      create_basic_auth_header(<<"a", "d", "m">>, <<"p", "x">>),
      [scheme |-> "Bearer", b64 |-> <<"a", "d", "m", ":", "p", "w">>] }

\* The headers and the peer address a request is drawn from: a header that
\* is absent is <<>>, X-Forwarded-For lists the hosts it names.
ForwardedForPool ==
    { <<>>, <<Host("127.0.0.1", "")>>, <<Host("10.0.0.5", ""), Host("127.0.0.1", "")>> }

RealIpPool == { <<>>, <<Host("::1", "lo")>>, <<Host("localhost", "")>> }

CfIpPool == { <<>>, <<Host("2001:db8::1", "")>>, <<Host("127.8.8.8", "")>> }

ClientPool == { NoClient, Host("127.0.0.1", ""), Host("10.0.0.5", "") }

NoAdminRequest ==
    [route |-> "none", authorization |-> NoAuthorization, forwarded_for |-> <<>>,
     real_ip |-> <<>>, cf_ip |-> <<>>, client |-> NoClient]

AdminIdle ==
    /\ ad_req = NoAdminRequest
    /\ ad_status = 0
    /\ ad_action = "none"
    /\ ad_count = 0

\* One request to an /api/admin endpoint: the endpoint's body runs, and the
\* administrative action with it, only when the dependency returned.
AdminEndpoint(route, authorization, forwarded_for, real_ip, cf_ip, client) ==
    /\ ad_count < MaxAdminCalls
    /\ ad_count' = ad_count + 1
    /\ ad_req' = [route |-> route, authorization |-> authorization,
                  forwarded_for |-> forwarded_for, real_ip |-> real_ip,
                  cf_ip |-> cf_ip, client |-> client]
    /\ ad_status' = require_local_admin(_parse_config([ok |-> TRUE, ver |-> 1]), ad_req')
    /\ ad_action' = IF ad_status' = 200 THEN route ELSE "none"

\* ------------------------------------------ direct transfer, the requests
\* src/app/api.py delete_direct_transfer, download_direct_transfer and
\* list_direct_transfers with what they answer.  ac_req is the last request
\* with the time it was served at, ac_before and ac_after the entries and
\* payloads before and after it, ac_listed the transfers it returned.

VARIABLES ac_req, ac_status, ac_before, ac_after, ac_listed

accessVars == <<ac_req, ac_status, ac_before, ac_after, ac_listed>>

\* The users that sign in: a sender, a recipient and a third user.
AccessUsers == DtUsers \cup {"carol"}

NoAccess == [op |-> "none", id |-> 0, user |-> "", now |-> 0]

AccessIdle ==
    /\ ac_req = NoAccess
    /\ ac_status = "none"
    /\ ac_before = [entries |-> {}, payload |-> {}]
    /\ ac_after = [entries |-> {}, payload |-> {}]
    /\ ac_listed = {}

\* what a request leaves of itself
Served(op, id, user, status, listed) ==
    /\ ac_req' = [op |-> op, id |-> id, user |-> user, now |-> dt_now]
    /\ ac_status' = status
    /\ ac_before' = [entries |-> dt_entries, payload |-> dt_payload]
    /\ ac_after' = [entries |-> dt_entries', payload |-> dt_payload']
    /\ ac_listed' = listed

\* the DirectTransferError of delete_transfer as delete_direct_transfer
\* answers it, "ok" when it returns
delete_status(id, user) ==
    IF id \notin Kept(dt_entries, dt_meta, dt_payload, dt_now) THEN "404"
    ELSE IF ~has_access(dt_meta[id], user) THEN "403"
    ELSE "ok"

\* DELETE /direct-transfer/{transfer_id}
delete_direct_transfer(id, user) ==
    /\ delete_transfer(id, user)
    /\ Served("delete", id, user, delete_status(id, user), {})

\* GET /direct-transfer/download/{transfer_id}, up to the first byte
download_direct_transfer(r) ==
    /\ prepare_download(r)
    /\ Served("download", dl_req[r].id, dl_req[r].user, dl_result'[r],
              IF dl_result'[r] = "ok" THEN {dl_req[r].id} ELSE {})

\* GET /direct-transfer/list: the entries left by the prune that are the
\* user's in that direction
list_direct_transfers(user, direction) ==
    /\ list_transfers
    /\ Served("list", 0, user, "ok",
              { id \in dt_entries' :
                  IF direction = "incoming" THEN dt_meta[id].recipient = user
                  ELSE dt_meta[id].sender = user })

\* ------------------------------------------------- IP filter, rule update
\* src/app/ipfilter.py IpFilter.update_rules and IpFilter.is_allowed: after
\* the check of the IP filter group was answered allow, one network is
\* added to the allow list and the same address is checked again.

VARIABLES fu_allow_list, fu_added, fu_result

updateVars == <<fu_allow_list, fu_added, fu_result>>

\* validate_cidr_list: the entries that parse, in order
RECURSIVE validate_cidr_list(_)
validate_cidr_list(cidr_list) ==
    IF cidr_list = <<>> THEN <<>>
    ELSE IF parse_cidr(Head(cidr_list)) # NoNet
    THEN <<Head(cidr_list)>> \o validate_cidr_list(Tail(cidr_list))
    ELSE validate_cidr_list(Tail(cidr_list))

\* A variant of is_allowed in which a deny network that contains the
\* address wins whatever its prefix length.
is_allowed_deny_first(s, allow, deny) ==
    /\ check_ip_allowed(s, allow, deny)
    /\ _get_most_specific(_parse_networks(deny), ip_address(s)) = NoNet

\* IpFilter.is_allowed
is_allowed(s, allow, deny) == check_ip_allowed(s, allow, deny)

\* list.insert(k, c)
InsertAt(list, k, c) == SubSeq(list, 1, k) \o <<c>> \o SubSeq(list, k + 1, Len(list))

UpdateIdle ==
    /\ fu_allow_list = <<>>
    /\ fu_added = BadCidr
    /\ fu_result = "idle"

\* IpFilter.update_rules(allow_list = the list with c put in at k), for an
\* address the filter allowed
update_rules(c, k) ==
    /\ ip_result = "allow"
    /\ fu_result = "idle"
    /\ fu_allow_list' = validate_cidr_list(InsertAt(allow_list, k, c))
    /\ fu_added' = c
    /\ fu_result' = "pending"
    /\ UNCHANGED ipVars

\* IpFilter.is_allowed after the update
IsAllowedAgain ==
    /\ fu_result = "pending"
    /\ fu_result' = IF is_allowed(ip_str, fu_allow_list, validate_cidr_list(deny_list))
                    THEN "allow" ELSE "deny"
    /\ UNCHANGED <<ipVars, fu_allow_list, fu_added>>

\* ------------------------------------------------------ request pipeline
\* src/app/middleware.py setup_middleware and the dispatch methods of the
\* middleware classes, src/app/main.py create_app.  A request walks the
\* middleware stack from the outermost class inwards, reaches the endpoint,
\* and its response walks back out.  Time is counted in ticks of 1 / rps
\* seconds, so that one tick refills one token.

VARIABLES pl_req, pl_pc, pl_trace, pl_status, pl_by, pl_permit, pl_consumed,
          pl_lookups, pl_verifies, pl_tokens, pl_last_refill, pl_sem, pl_now

pipelineVars == <<pl_req, pl_pc, pl_trace, pl_status, pl_by, pl_permit,
                  pl_consumed, pl_lookups, pl_verifies, pl_tokens,
                  pl_last_refill, pl_sem, pl_now>>

\* Requests followed through the pipeline.
NumPl == 2

\* Ticks of the clock in a run.
MaxPlTime == 1

\* config.rateLimit.burst and config.rateLimit.maxConcurrent of the server
PlBurst == 1

PlMaxConcurrent == 1

PlRequests == 1..NumPl

\* config.ipFilter.allow and config.ipFilter.deny of the server
PlAllow == <<>>

PlDeny == <<NetCidr(4, <<0, 1, 1>>, 3)>>

\* A variant of add_middleware that puts the class at the end of the list.
add_middleware_append(user_middleware, cls) == Append(user_middleware, cls)

\* Starlette.add_middleware: self.user_middleware.insert(0, Middleware(cls));
\* build_middleware_stack wraps the router with the list reversed, so the
\* head of the list is the outermost class.
add_middleware(user_middleware, cls) == <<cls>> \o user_middleware

\* setup_middleware: the add_middleware calls in the order of the code
setup_middleware(user_middleware) ==
    add_middleware(
      add_middleware(
        add_middleware(
          add_middleware(
            add_middleware(
              add_middleware(user_middleware, "RequestMetricsMiddleware"),
              "AccessLogMiddleware"),
            "ExceptionHandlerMiddleware"),
          "IpFilterMiddleware"),
        "RateLimitMiddleware"),
      "ConcurrencyLimitMiddleware")

\* create_app: the CORS middleware is added, then setup_middleware is called
middleware_stack == setup_middleware(add_middleware(<<>>, "CORSMiddleware"))

\* IpFilterMiddleware._is_whitelisted_endpoint: its whitelist; a path is the
\* sequence of its slashes and names
whitelist ==
    << <<"GET", <<"/", "healthz">> >>, <<"GET", <<"/", "metrics">> >>,
       <<"GET", <<"/">> >>, <<"GET", <<"/", "t", "/">> >> >>

_is_whitelisted_endpoint(method, path) ==
    \E i \in 1..Len(whitelist) :
        /\ method = whitelist[i][1]
        /\ \/ EndsWith(whitelist[i][2], <<"/">>) /\ StartsWith(path, whitelist[i][2])
           \/ path = whitelist[i][2]

\* get_current_user_optional: the calls of get_user_by_name and of
\* verify_password it makes for a request with that Authorization header
credential_lookups(authorization) ==
    IF parse_basic_auth(authorization).ok THEN 1 ELSE 0

password_verifications(config, authorization) ==
    IF /\ parse_basic_auth(authorization).ok
       /\ get_user_by_name(config, parse_basic_auth(authorization).username) # <<>>
    THEN 1 ELSE 0

\* TokenBucket.consume(1) at time now: the refill, then the test
refilled(tokens, last_refill, now) == Min(PlBurst, tokens + (now - last_refill))

\* The endpoints requests are drawn from, and whether the endpoint depends
\* on get_current_user.
PlEndpoints ==
    { [method |-> "GET", path |-> <<"/", "healthz">>, auth |-> FALSE],
      [method |-> "GET", path |-> <<"/", "api", "/", "list">>, auth |-> TRUE],
      [method |-> "POST", path |-> <<"/", "api", "/", "mkdir">>, auth |-> TRUE] }

PlClients == { Addr(4, <<1, 0, 1>>), Addr(4, <<0, 1, 1>>) }

PlAuthorizations ==
    { NoAuthorization,
      create_basic_auth_header(<<"a", "d", "m">>, <<"p", "w">>),
      create_basic_auth_header(<<"a", "d", "m">>, <<"p", "x">>),
      create_basic_auth_header(<<"b", "o", "b">>, <<"p", "w">>) }

PlConfig == _parse_config([ok |-> TRUE, ver |-> 1])

NoPlRequest ==
    [endpoint |-> [method |-> "none", path |-> <<>>, auth |-> FALSE],
     client_ip |-> EmptyIp, authorization |-> NoAuthorization]

PipelineIdle ==
    /\ pl_req = [r \in PlRequests |-> NoPlRequest]
    /\ pl_pc = [r \in PlRequests |-> 0]
    /\ pl_trace = [r \in PlRequests |-> <<>>]
    /\ pl_status = [r \in PlRequests |-> 0]
    /\ pl_by = [r \in PlRequests |-> "none"]
    /\ pl_permit = [r \in PlRequests |-> "none"]
    /\ pl_consumed = [r \in PlRequests |-> 0]
    /\ pl_lookups = [r \in PlRequests |-> 0]
    /\ pl_verifies = [r \in PlRequests |-> 0]
    /\ pl_tokens = PlBurst
    /\ pl_last_refill = 0
    /\ pl_sem = PlMaxConcurrent
    /\ pl_now = 0

\* pl_pc: 0 before the request arrives, k while dispatch of the k-th class of
\* the stack is about to run, Inside at the endpoint, Unwinding while the
\* response passes back through the classes already entered, Done after.
Inside == Len(middleware_stack) + 1

Unwinding == Len(middleware_stack) + 2

Done == Len(middleware_stack) + 3

\* the request is answered by cls with that status and goes no further in
Respond(r, cls, status) ==
    /\ pl_status' = [pl_status EXCEPT ![r] = status]
    /\ pl_by' = [pl_by EXCEPT ![r] = cls]
    /\ pl_pc' = [pl_pc EXCEPT ![r] = Unwinding]

\* call_next(request)
call_next(r) ==
    /\ pl_pc' = [pl_pc EXCEPT ![r] = pl_pc[r] + 1]
    /\ UNCHANGED <<pl_status, pl_by>>

\* a request arrives at the server
PlArrive(r, endpoint, client_ip, authorization) ==
    /\ pl_pc[r] = 0
    /\ pl_req' = [pl_req EXCEPT ![r] = [endpoint |-> endpoint, client_ip |-> client_ip,
                                        authorization |-> authorization]]
    /\ pl_pc' = [pl_pc EXCEPT ![r] = 1]
    /\ UNCHANGED <<pl_trace, pl_status, pl_by, pl_permit, pl_consumed, pl_lookups,
                   pl_verifies, pl_tokens, pl_last_refill, pl_sem, pl_now>>

\* ConcurrencyLimitMiddleware.dispatch: the permit is acquired, at once or
\* within the grace timeout
ConcurrencyLimitDispatch(r) ==
    /\ pl_sem > 0
    /\ pl_sem' = pl_sem - 1
    /\ pl_permit' = [pl_permit EXCEPT ![r] = "held"]
    /\ call_next(r)
    /\ UNCHANGED <<pl_consumed, pl_lookups, pl_verifies, pl_tokens, pl_last_refill>>

\* RateLimitMiddleware.dispatch
RateLimitStage(r) ==
    /\ pl_last_refill' = pl_now
    /\ IF refilled(pl_tokens, pl_last_refill, pl_now) >= 1
       THEN /\ pl_tokens' = refilled(pl_tokens, pl_last_refill, pl_now) - 1
            /\ pl_consumed' = [pl_consumed EXCEPT ![r] = 1]
            /\ call_next(r)
       ELSE /\ pl_tokens' = refilled(pl_tokens, pl_last_refill, pl_now)
            /\ UNCHANGED pl_consumed
            /\ Respond(r, "RateLimitMiddleware", 429)
    /\ UNCHANGED <<pl_permit, pl_lookups, pl_verifies, pl_sem>>

\* IpFilterMiddleware.dispatch
IpFilterDispatch(r) ==
    /\ IF _is_whitelisted_endpoint(pl_req[r].endpoint.method, pl_req[r].endpoint.path)
       THEN call_next(r)
       ELSE IF ~check_ip_allowed(pl_req[r].client_ip, PlAllow, PlDeny)
       THEN Respond(r, "IpFilterMiddleware", 403)
       ELSE call_next(r)
    /\ UNCHANGED <<pl_permit, pl_consumed, pl_lookups, pl_verifies, pl_tokens,
                   pl_last_refill, pl_sem>>

\* AccessLogMiddleware.dispatch: get_auth_context before call_next
AccessLogDispatch(r) ==
    /\ pl_lookups' = [pl_lookups EXCEPT
                         ![r] = @ + credential_lookups(pl_req[r].authorization)]
    /\ pl_verifies' = [pl_verifies EXCEPT
                         ![r] = @ + password_verifications(PlConfig, pl_req[r].authorization)]
    /\ call_next(r)
    /\ UNCHANGED <<pl_permit, pl_consumed, pl_tokens, pl_last_refill, pl_sem>>

\* RequestMetricsMiddleware, ExceptionHandlerMiddleware, CORSMiddleware
PassDispatch(r) ==
    /\ call_next(r)
    /\ UNCHANGED <<pl_permit, pl_consumed, pl_lookups, pl_verifies, pl_tokens,
                   pl_last_refill, pl_sem>>

\* dispatch of the class the request stands before
PlDispatch(r) ==
    /\ pl_pc[r] \in 1..Len(middleware_stack)
    /\ pl_trace' = [pl_trace EXCEPT ![r] = Append(@, middleware_stack[pl_pc[r]])]
    /\ IF middleware_stack[pl_pc[r]] = "ConcurrencyLimitMiddleware"
       THEN ConcurrencyLimitDispatch(r)
       ELSE IF middleware_stack[pl_pc[r]] = "RateLimitMiddleware"
       THEN RateLimitStage(r)
       ELSE IF middleware_stack[pl_pc[r]] = "IpFilterMiddleware"
       THEN IpFilterDispatch(r)
       ELSE IF middleware_stack[pl_pc[r]] = "AccessLogMiddleware"
       THEN AccessLogDispatch(r)
       ELSE PassDispatch(r)
    /\ UNCHANGED <<pl_req, pl_now>>

\* ConcurrencyLimitMiddleware.dispatch: asyncio.TimeoutError while no permit
\* is free, 429
PlAcquireTimeout(r) ==
    /\ pl_pc[r] \in 1..Len(middleware_stack)
    /\ middleware_stack[pl_pc[r]] = "ConcurrencyLimitMiddleware"
    /\ pl_sem = 0
    /\ pl_trace' = [pl_trace EXCEPT ![r] = Append(@, "ConcurrencyLimitMiddleware")]
    /\ Respond(r, "ConcurrencyLimitMiddleware", 429)
    /\ UNCHANGED <<pl_req, pl_permit, pl_consumed, pl_lookups, pl_verifies,
                   pl_tokens, pl_last_refill, pl_sem, pl_now>>

\* the endpoint: its dependency get_current_user where it has one, 401 or 200
PlEndpoint(r) ==
    /\ pl_pc[r] = Inside
    /\ IF pl_req[r].endpoint.auth
       THEN /\ pl_lookups' = [pl_lookups EXCEPT
                                 ![r] = @ + credential_lookups(pl_req[r].authorization)]
            /\ pl_verifies' = [pl_verifies EXCEPT
                                 ![r] = @ + password_verifications(PlConfig,
                                                                   pl_req[r].authorization)]
            /\ Respond(r, "endpoint", get_current_user(PlConfig, pl_req[r].authorization))
       ELSE /\ UNCHANGED <<pl_lookups, pl_verifies>>
            /\ Respond(r, "endpoint", 200)
    /\ UNCHANGED <<pl_req, pl_trace, pl_permit, pl_consumed, pl_tokens,
                   pl_last_refill, pl_sem, pl_now>>

\* the response returns through the classes entered: the finally block of
\* ConcurrencyLimitMiddleware.dispatch releases the permit it holds
PlReturn(r) ==
    /\ pl_pc[r] = Unwinding
    /\ pl_pc' = [pl_pc EXCEPT ![r] = Done]
    /\ IF pl_permit[r] = "held"
       THEN /\ pl_sem' = release(pl_sem)
            /\ pl_permit' = [pl_permit EXCEPT ![r] = "released"]
       ELSE UNCHANGED <<pl_sem, pl_permit>>
    /\ UNCHANGED <<pl_req, pl_trace, pl_status, pl_by, pl_consumed, pl_lookups,
                   pl_verifies, pl_tokens, pl_last_refill, pl_now>>

\* time.time() advances by one tick
PlTick ==
    /\ pl_now < MaxPlTime
    /\ pl_now' = pl_now + 1
    /\ UNCHANGED <<pl_req, pl_pc, pl_trace, pl_status, pl_by, pl_permit,
                   pl_consumed, pl_lookups, pl_verifies, pl_tokens,
                   pl_last_refill, pl_sem>>

\* ---------------------------------------------------------- quota manager
\* src/app/quota.py ShareQuotaManager for one share, with the operations of
\* src/app/fs.py that change what the share holds.  Every change of the
\* share, and every invalidate, advances qm_clock; a walk is stamped with
\* the clock it started at, and the stamp stays with the value it computed.

VARIABLES qm_cache, qm_locked, qm_waiters, qm_pc, qm_force, qm_walk, qm_result,
          qm_walked, qm_behind, qm_call_op, qm_call_inv, qm_resume_inv,
          qm_disk, qm_clock, qm_last_op, qm_last_inv

quotaVars == <<qm_cache, qm_locked, qm_waiters, qm_pc, qm_force, qm_walk,
               qm_result, qm_walked, qm_behind, qm_call_op, qm_call_inv,
               qm_resume_inv, qm_disk, qm_clock, qm_last_op, qm_last_inv>>

\* Callers of get_usage in a run.
NumCallers == 3

\* Deletions, renames and invalidations in a run.
MaxQmEvents == 2

\* Bytes the share holds at the start.
QmDiskBytes == 2

Callers == 1..NumCallers

\* share.name not in self._cache
NoCache == [usage |-> -1, stamp |-> -1]

QuotaIdle ==
    /\ qm_cache = NoCache
    /\ qm_locked = 0
    /\ qm_waiters = <<>>
    /\ qm_pc = [c \in Callers |-> "idle"]
    /\ qm_force = [c \in Callers |-> FALSE]
    /\ qm_walk = [c \in Callers |-> NoCache]
    /\ qm_result = [c \in Callers |-> NoCache]
    /\ qm_walked = [c \in Callers |-> FALSE]
    /\ qm_behind = [c \in Callers |-> 0]
    /\ qm_call_op = [c \in Callers |-> 0]
    /\ qm_call_inv = [c \in Callers |-> 0]
    /\ qm_resume_inv = [c \in Callers |-> 0]
    /\ qm_disk = QmDiskBytes
    /\ qm_clock = 0
    /\ qm_last_op = 0
    /\ qm_last_inv = 0

\* get_usage inside `async with lock`, up to its first await: the cached
\* value is returned and the lock released, or the walk starts under the lock
UnderLock(c, force) ==
    IF ~force /\ qm_cache # NoCache
    THEN /\ qm_result' = [qm_result EXCEPT ![c] = qm_cache]
         /\ qm_pc' = [qm_pc EXCEPT ![c] = "done"]
         /\ qm_locked' = 0
         /\ UNCHANGED <<qm_walk, qm_walked>>
    ELSE /\ qm_walk' = [qm_walk EXCEPT ![c] = [usage |-> qm_disk, stamp |-> qm_clock]]
         /\ qm_walked' = [qm_walked EXCEPT ![c] = TRUE]
         /\ qm_pc' = [qm_pc EXCEPT ![c] = "walking"]
         /\ qm_locked' = c
         /\ UNCHANGED qm_result

\* get_usage(share, force=force) is called: asyncio.Lock.acquire returns at
\* once when the lock is free and nobody waits, else the caller waits in line
get_usage(c, force) ==
    /\ qm_pc[c] = "idle"
    /\ qm_force' = [qm_force EXCEPT ![c] = force]
    /\ qm_call_op' = [qm_call_op EXCEPT ![c] = qm_last_op]
    /\ qm_call_inv' = [qm_call_inv EXCEPT ![c] = qm_last_inv]
    /\ qm_behind' = [qm_behind EXCEPT ![c] = qm_locked]
    /\ IF qm_locked = 0 /\ qm_waiters = <<>>
       THEN /\ UnderLock(c, force)
            /\ qm_resume_inv' = [qm_resume_inv EXCEPT ![c] = qm_last_inv]
            /\ UNCHANGED qm_waiters
       ELSE /\ qm_waiters' = Append(qm_waiters, c)
            /\ qm_pc' = [qm_pc EXCEPT ![c] = "waiting"]
            /\ UNCHANGED <<qm_locked, qm_walk, qm_walked, qm_result, qm_resume_inv>>
    /\ UNCHANGED <<qm_cache, qm_disk, qm_clock, qm_last_op, qm_last_inv>>

\* the first waiter is woken after a release and takes the lock
get_usage_resume(c) ==
    /\ qm_waiters # <<>>
    /\ c = Head(qm_waiters)
    /\ qm_locked = 0
    /\ qm_waiters' = Tail(qm_waiters)
    /\ qm_resume_inv' = [qm_resume_inv EXCEPT ![c] = qm_last_inv]
    /\ UnderLock(c, qm_force[c])
    /\ UNCHANGED <<qm_cache, qm_force, qm_behind, qm_call_op, qm_call_inv,
                   qm_disk, qm_clock, qm_last_op, qm_last_inv>>

\* A variant of the end of the walk that leaves the cache as it is.
store_usage_skip(cache, walk) == cache

\* self._cache[share.name] = (time.time(), usage)
store_usage(cache, walk) == walk

\* _calculate_usage returns: the value is cached and returned, the lock is
\* released
get_usage_return(c) ==
    /\ qm_pc[c] = "walking"
    /\ qm_cache' = store_usage(qm_cache, qm_walk[c])
    /\ qm_result' = [qm_result EXCEPT ![c] = qm_walk[c]]
    /\ qm_pc' = [qm_pc EXCEPT ![c] = "done"]
    /\ qm_locked' = 0
    /\ UNCHANGED <<qm_waiters, qm_force, qm_walk, qm_walked, qm_behind, qm_call_op,
                   qm_call_inv, qm_resume_inv, qm_disk, qm_clock, qm_last_op,
                   qm_last_inv>>

\* the caller's task is cancelled while it awaits _calculate_usage: the lock
\* is released, nothing is cached
get_usage_cancelled(c) ==
    /\ qm_pc[c] = "walking"
    /\ qm_pc' = [qm_pc EXCEPT ![c] = "cancelled"]
    /\ qm_locked' = 0
    /\ UNCHANGED <<qm_cache, qm_waiters, qm_force, qm_walk, qm_result, qm_walked,
                   qm_behind, qm_call_op, qm_call_inv, qm_resume_inv, qm_disk,
                   qm_clock, qm_last_op, qm_last_inv>>

\* invalidate(share_name): self._cache.pop(share_name, None)
invalidate ==
    /\ qm_clock < MaxQmEvents
    /\ qm_clock' = qm_clock + 1
    /\ qm_last_inv' = qm_clock + 1
    /\ qm_cache' = NoCache
    /\ UNCHANGED <<qm_locked, qm_waiters, qm_pc, qm_force, qm_walk, qm_result,
                   qm_walked, qm_behind, qm_call_op, qm_call_inv, qm_resume_inv,
                   qm_disk, qm_last_op>>

\* delete_file_or_directory succeeds on a file of one byte: the share holds
\* one byte less; the quota manager is not called
QmDelete ==
    /\ qm_clock < MaxQmEvents
    /\ qm_disk > 0
    /\ qm_disk' = qm_disk - 1
    /\ qm_clock' = qm_clock + 1
    /\ qm_last_op' = qm_clock + 1
    /\ UNCHANGED <<qm_cache, qm_locked, qm_waiters, qm_pc, qm_force, qm_walk,
                   qm_result, qm_walked, qm_behind, qm_call_op, qm_call_inv,
                   qm_resume_inv, qm_last_inv>>

\* rename_file_or_directory succeeds: the share holds the same bytes under
\* another name; the quota manager is not called
QmRename ==
    /\ qm_clock < MaxQmEvents
    /\ qm_disk > 0
    /\ qm_clock' = qm_clock + 1
    /\ qm_last_op' = qm_clock + 1
    /\ UNCHANGED <<qm_cache, qm_locked, qm_waiters, qm_pc, qm_force, qm_walk,
                   qm_result, qm_walked, qm_behind, qm_call_op, qm_call_inv,
                   qm_resume_inv, qm_disk, qm_last_inv>>

\* ---------------------------------------- concurrency cap, limit update
\* src/app/middleware.py ConcurrencyLimitMiddleware.dispatch and
\* update_limit.  Every update_limit creates a semaphore; ul_sems lists the
\* values of the semaphores created so far and self.semaphore is the last
\* of them.  ul_on[r] is the semaphore request r called acquire on and
\* ul_off[r] the one it released, 0 for none.

VARIABLES ul_sems, ul_max, ul_pc, ul_on, ul_off

limitVars == <<ul_sems, ul_max, ul_pc, ul_on, ul_off>>

\* Requests followed through the middleware.
NumUl == 4

\* Calls of update_limit in a run.
MaxLimitUpdates == 1

UlRequests == 1..NumUl

LimitIdle ==
    /\ ul_sems = <<MaxConcurrent>>
    /\ ul_max = MaxConcurrent
    /\ ul_pc = [r \in UlRequests |-> "idle"]
    /\ ul_on = [r \in UlRequests |-> 0]
    /\ ul_off = [r \in UlRequests |-> 0]

\* self.semaphore
semaphore(sems) == Len(sems)

\* self.semaphore.release() in the finally block: self.semaphore is read
\* when the block runs
release_target(sems, acquired) == semaphore(sems)

\* dispatch starts: wait_for(self.semaphore.acquire(), 0.1) takes the permit
\* at once, or the request starts waiting on that semaphore
UlArrive(r) ==
    /\ ul_pc[r] = "idle"
    /\ ul_on' = [ul_on EXCEPT ![r] = semaphore(ul_sems)]
    /\ IF ul_sems[semaphore(ul_sems)] > 0
       THEN /\ ul_sems' = [ul_sems EXCEPT ![semaphore(ul_sems)] = @ - 1]
            /\ ul_pc' = [ul_pc EXCEPT ![r] = "inside"]
       ELSE /\ ul_pc' = [ul_pc EXCEPT ![r] = "waiting"]
            /\ UNCHANGED ul_sems
    /\ UNCHANGED <<ul_max, ul_off>>

\* a permit of the semaphore waited on was released within the timeout
UlAcquire(r) ==
    /\ ul_pc[r] = "waiting"
    /\ ul_sems[ul_on[r]] > 0
    /\ ul_sems' = [ul_sems EXCEPT ![ul_on[r]] = @ - 1]
    /\ ul_pc' = [ul_pc EXCEPT ![r] = "inside"]
    /\ UNCHANGED <<ul_max, ul_on, ul_off>>

\* asyncio.TimeoutError: 429
UlTimeout(r) ==
    /\ ul_pc[r] = "waiting"
    /\ ul_pc' = [ul_pc EXCEPT ![r] = "rejected"]
    /\ UNCHANGED <<ul_sems, ul_max, ul_on, ul_off>>

\* call_next returns: the finally block releases
UlReturn(r) ==
    /\ ul_pc[r] = "inside"
    /\ ul_pc' = [ul_pc EXCEPT ![r] = "done"]
    /\ ul_off' = [ul_off EXCEPT ![r] = release_target(ul_sems, ul_on[r])]
    /\ ul_sems' = [ul_sems EXCEPT ![release_target(ul_sems, ul_on[r])] = release(@)]
    /\ UNCHANGED <<ul_max, ul_on>>

\* update_limit(max_concurrent): self.semaphore = asyncio.Semaphore(n)
update_limit(n) ==
    /\ Len(ul_sems) <= MaxLimitUpdates
    /\ ul_sems' = Append(ul_sems, n)
    /\ ul_max' = n
    /\ UNCHANGED <<ul_pc, ul_on, ul_off>>

\* ------------------------------------------- token bucket, limit update
\* src/app/models.py TokenBucket with src/app/middleware.py
\* RateLimitMiddleware.update_limits.  Time is counted in ticks and
\* refill_rate in tokens per tick, so that tokens stay whole numbers.
\* bk_last is the last call: for a consume the tokens and the elapsed time
\* it started from and what it returned.

VARIABLES bk_bucket, bk_now, bk_last, bk_calls

bucketVars == <<bk_bucket, bk_now, bk_last, bk_calls>>

\* Calls of consume and of update_limits in a run.
MaxBucketCalls == 4

\* The largest burst, rate, request size and time step drawn.
MaxBurst == 3

MaxRate == 2

MaxConsume == 2

MaxStep == 2

\* TokenBucket(capacity, tokens, last_refill, refill_rate); __post_init__
\* fills the bucket
TokenBucket(cap, rate, now) ==
    [capacity |-> cap, tokens |-> cap, last_refill |-> now, refill_rate |-> rate]

NoBucketCall ==
    [op |-> "none", n |-> 0, tokens |-> 0, elapsed |-> 0, capacity |-> 0,
     refill_rate |-> 0, ok |-> FALSE]

BucketIdle ==
    /\ bk_bucket = TokenBucket(MaxBurst, 1, 0)
    /\ bk_now = 0
    /\ bk_last = NoBucketCall
    /\ bk_calls = 0

\* A variant of consume that subtracts the tokens whether or not enough of
\* them are there.
bucket_consume_always(bucket, now, n) ==
    LET tokens == Min(bucket.capacity,
                      bucket.tokens + (now - bucket.last_refill) * bucket.refill_rate)
    IN [ok |-> tokens >= n,
        bucket |-> [bucket EXCEPT !.tokens = tokens - n, !.last_refill = now]]

\* TokenBucket.consume(n) at time now: what it returns and the bucket after
bucket_consume(bucket, now, n) ==
    LET tokens == Min(bucket.capacity,
                      bucket.tokens + (now - bucket.last_refill) * bucket.refill_rate)
    IN IF tokens >= n
       THEN [ok |-> TRUE,
             bucket |-> [bucket EXCEPT !.tokens = tokens - n, !.last_refill = now]]
       ELSE [ok |-> FALSE,
             bucket |-> [bucket EXCEPT !.tokens = tokens, !.last_refill = now]]

\* RateLimitMiddleware.update_limits(rps, burst): the capacity and the rate
\* of the bucket are set, its tokens are left alone
update_limits(bucket, rate, burst_) ==
    [bucket EXCEPT !.capacity = burst_, !.refill_rate = rate]

\* token_bucket.consume(n), dt ticks after the previous call
BucketConsume(n, dt) ==
    /\ bk_calls < MaxBucketCalls
    /\ bk_calls' = bk_calls + 1
    /\ bk_now' = bk_now + dt
    /\ bk_bucket' = bucket_consume(bk_bucket, bk_now + dt, n).bucket
    /\ bk_last' = [op |-> "consume", n |-> n, tokens |-> bk_bucket.tokens,
                   elapsed |-> bk_now + dt - bk_bucket.last_refill,
                   capacity |-> bk_bucket.capacity,
                   refill_rate |-> bk_bucket.refill_rate,
                   ok |-> bucket_consume(bk_bucket, bk_now + dt, n).ok]

\* update_limits(rate, burst), dt ticks after the previous call
BucketUpdateLimits(rate, burst_, dt) ==
    /\ bk_calls < MaxBucketCalls
    /\ bk_calls' = bk_calls + 1
    /\ bk_now' = bk_now + dt
    /\ bk_bucket' = update_limits(bk_bucket, rate, burst_)
    /\ bk_last' = [NoBucketCall EXCEPT !.op = "update_limits"]

\* ------------------------------------------------- configuration watcher
\* src/app/config.py ConfigFileHandler and ConfigManager._on_config_changed.
\* The observer thread takes the events of the watched directory one at a
\* time, in the order they were raised, and calls on_modified for each.
\* wt_yaml is the content of chfs.yaml, wt_config the current snapshot,
\* wt_queue the events raised and not yet dispatched, wt_last_modified the
\* handler's field.  Time is counted in ticks; wt_dropped records that the
\* debounce has discarded an event for chfs.yaml.

VARIABLES wt_yaml, wt_config, wt_queue, wt_last_modified, wt_now, wt_dropped

watchVars == <<wt_yaml, wt_config, wt_queue, wt_last_modified, wt_now, wt_dropped>>

\* Events raised in a run.
MaxWtEvents == 3

\* Ticks of the clock after the start.
MaxWtTime == 3

\* handler.debounce_ms in ticks
DebounceTicks == 2

\* The snapshot is the one loaded at startup and the handler has handled
\* nothing; time.time() is far more than debounce_ms after last_modified = 0.
WatchIdle ==
    /\ wt_yaml = [ok |-> TRUE, ver |-> 1]
    /\ wt_config = load_config(DefaultConfig, [ok |-> TRUE, ver |-> 1])
    /\ wt_queue = <<>>
    /\ wt_last_modified = 0
    /\ wt_now = DebounceTicks
    /\ wt_dropped = FALSE

\* chfs.yaml is rewritten, with content that parses or not; the observer
\* raises a modified event for it.
WtEdit(ok) ==
    /\ wt_yaml.ver + Len(wt_queue) <= MaxWtEvents
    /\ wt_yaml' = [ok |-> ok, ver |-> wt_yaml.ver + 1]
    /\ wt_queue' = Append(wt_queue, "chfs.yaml")
    /\ UNCHANGED <<wt_config, wt_last_modified, wt_now, wt_dropped>>

\* Another file of the watched directory is modified.
WtOther ==
    /\ wt_yaml.ver + Len(wt_queue) <= MaxWtEvents
    /\ wt_queue' = Append(wt_queue, "other")
    /\ UNCHANGED <<wt_yaml, wt_config, wt_last_modified, wt_now, wt_dropped>>

\* ConfigFileHandler.on_modified for the oldest event, with the callback
\* ConfigManager._on_config_changed
on_modified ==
    /\ wt_queue # <<>>
    /\ wt_queue' = Tail(wt_queue)
    /\ IF Head(wt_queue) # "chfs.yaml"
       THEN UNCHANGED <<wt_config, wt_last_modified, wt_dropped>>
       ELSE IF wt_now - wt_last_modified < DebounceTicks
       THEN /\ wt_dropped' = TRUE
            /\ UNCHANGED <<wt_config, wt_last_modified>>
       ELSE /\ wt_last_modified' = wt_now
            /\ wt_config' = load_config(wt_config, wt_yaml)
            /\ UNCHANGED wt_dropped
    /\ UNCHANGED <<wt_yaml, wt_now>>

\* time.time() advances
WtTick ==
    /\ wt_now < DebounceTicks + MaxWtTime
    /\ wt_now' = wt_now + 1
    /\ UNCHANGED <<wt_yaml, wt_config, wt_queue, wt_last_modified, wt_dropped>>

\* --------------------------------------------------------- specifications
\* One specification per component; the other components stay idle.

vars == <<ipVars, ruleVars, pathVars, rateVars, concVars, uploadVars, transferVars, apiVars,
         storeVars,
         tstoreVars,
         streamVars,
         configVars,
         rangeVars,
         renameVars,
         adminVars,
         accessVars,
         updateVars,
         pipelineVars,
         quotaVars,
         limitVars,
         bucketVars,
         watchVars>>

othersIp ==
    <<ruleVars, pathVars, rateVars, concVars,
      uploadVars, transferVars, apiVars,
      storeVars,
      tstoreVars,
      streamVars,
      configVars,
      rangeVars,
      renameVars,
      adminVars,
      accessVars,
      updateVars,
      pipelineVars,
      quotaVars,
      limitVars,
      bucketVars,
      watchVars>>

InitIp ==
    /\ IpInit
    /\ RuleIdle
    /\ PathIdle
    /\ RateIdle
    /\ ConcIdle
    /\ UploadIdle
    /\ TransferIdle
    /\ ApiIdle
    /\ StoreIdle
    /\ TStoreIdle
    /\ StreamIdle
    /\ ConfigIdle
    /\ RangeIdle
    /\ RenameIdle
    /\ AdminIdle
    /\ AccessIdle
    /\ UpdateIdle
    /\ PipelineIdle
    /\ QuotaIdle
    /\ LimitIdle
    /\ BucketIdle
    /\ WatchIdle

NextIp ==
    CheckIp /\ UNCHANGED othersIp

SpecIp == InitIp /\ [][NextIp]_vars

othersRules ==
    <<ipVars, pathVars, rateVars, concVars,
      uploadVars, transferVars, apiVars,
      storeVars,
      tstoreVars,
      streamVars,
      configVars,
      rangeVars,
      renameVars,
      adminVars,
      accessVars,
      updateVars,
      pipelineVars,
      quotaVars,
      limitVars,
      bucketVars,
      watchVars>>

InitRules ==
    /\ IpIdle
    /\ RuleInit
    /\ PathIdle
    /\ RateIdle
    /\ ConcIdle
    /\ UploadIdle
    /\ TransferIdle
    /\ ApiIdle
    /\ StoreIdle
    /\ TStoreIdle
    /\ StreamIdle
    /\ ConfigIdle
    /\ RangeIdle
    /\ RenameIdle
    /\ AdminIdle
    /\ AccessIdle
    /\ UpdateIdle
    /\ PipelineIdle
    /\ QuotaIdle
    /\ LimitIdle
    /\ BucketIdle
    /\ WatchIdle

NextRules ==
    Evaluate /\ UNCHANGED othersRules

SpecRules == InitRules /\ [][NextRules]_vars

othersPath ==
    <<ipVars, ruleVars, rateVars, concVars,
      uploadVars, transferVars, apiVars,
      storeVars,
      tstoreVars,
      streamVars,
      configVars,
      rangeVars,
      renameVars,
      adminVars,
      accessVars,
      updateVars,
      pipelineVars,
      quotaVars,
      limitVars,
      bucketVars,
      watchVars>>

InitPath ==
    /\ IpIdle
    /\ RuleIdle
    /\ PathInit
    /\ RateIdle
    /\ ConcIdle
    /\ UploadIdle
    /\ TransferIdle
    /\ ApiIdle
    /\ StoreIdle
    /\ TStoreIdle
    /\ StreamIdle
    /\ ConfigIdle
    /\ RangeIdle
    /\ RenameIdle
    /\ AdminIdle
    /\ AccessIdle
    /\ UpdateIdle
    /\ PipelineIdle
    /\ QuotaIdle
    /\ LimitIdle
    /\ BucketIdle
    /\ WatchIdle

NextPath ==
    SafeJoin /\ UNCHANGED othersPath

SpecPath == InitPath /\ [][NextPath]_vars

othersRate ==
    <<ipVars, ruleVars, pathVars, concVars,
      uploadVars, transferVars, apiVars,
      storeVars,
      tstoreVars,
      streamVars,
      configVars,
      rangeVars,
      renameVars,
      adminVars,
      accessVars,
      updateVars,
      pipelineVars,
      quotaVars,
      limitVars,
      bucketVars,
      watchVars>>

InitRate ==
    /\ IpIdle
    /\ RuleIdle
    /\ PathIdle
    /\ RateInit
    /\ ConcIdle
    /\ UploadIdle
    /\ TransferIdle
    /\ ApiIdle
    /\ StoreIdle
    /\ TStoreIdle
    /\ StreamIdle
    /\ ConfigIdle
    /\ RangeIdle
    /\ RenameIdle
    /\ AdminIdle
    /\ AccessIdle
    /\ UpdateIdle
    /\ PipelineIdle
    /\ QuotaIdle
    /\ LimitIdle
    /\ BucketIdle
    /\ WatchIdle

NextRate ==
    \E dt \in 0..2 : RateLimitDispatch(dt) /\ UNCHANGED othersRate

SpecRate == InitRate /\ [][NextRate]_vars

othersConc ==
    <<ipVars, ruleVars, pathVars, rateVars,
      uploadVars, transferVars, apiVars,
      storeVars,
      tstoreVars,
      streamVars,
      configVars,
      rangeVars,
      renameVars,
      adminVars,
      accessVars,
      updateVars,
      pipelineVars,
      quotaVars,
      limitVars,
      bucketVars,
      watchVars>>

InitConc ==
    /\ IpIdle
    /\ RuleIdle
    /\ PathIdle
    /\ RateIdle
    /\ ConcInit
    /\ UploadIdle
    /\ TransferIdle
    /\ ApiIdle
    /\ StoreIdle
    /\ TStoreIdle
    /\ StreamIdle
    /\ ConfigIdle
    /\ RangeIdle
    /\ RenameIdle
    /\ AdminIdle
    /\ AccessIdle
    /\ UpdateIdle
    /\ PipelineIdle
    /\ QuotaIdle
    /\ LimitIdle
    /\ BucketIdle
    /\ WatchIdle

NextConc ==
    \E r \in Requests :
        \/ ClArrive(r) /\ UNCHANGED othersConc
        \/ ClAcquire(r) /\ UNCHANGED othersConc
        \/ ClTimeout(r) /\ UNCHANGED othersConc
        \/ ClReturn(r) /\ UNCHANGED othersConc
        \/ ClRaise(r) /\ UNCHANGED othersConc
        \/ ClCancel(r) /\ UNCHANGED othersConc

SpecConc == InitConc /\ [][NextConc]_vars

othersUpload ==
    <<ipVars, ruleVars, pathVars, rateVars,
      concVars, transferVars, apiVars,
      storeVars,
      tstoreVars,
      streamVars,
      configVars,
      rangeVars,
      renameVars,
      adminVars,
      accessVars,
      updateVars,
      pipelineVars,
      quotaVars,
      limitVars,
      bucketVars,
      watchVars>>

InitUpload ==
    /\ IpIdle
    /\ RuleIdle
    /\ PathIdle
    /\ RateIdle
    /\ ConcIdle
    /\ UploadInit
    /\ TransferIdle
    /\ ApiIdle
    /\ StoreIdle
    /\ TStoreIdle
    /\ StreamIdle
    /\ ConfigIdle
    /\ RangeIdle
    /\ RenameIdle
    /\ AdminIdle
    /\ AccessIdle
    /\ UpdateIdle
    /\ PipelineIdle
    /\ QuotaIdle
    /\ LimitIdle
    /\ BucketIdle
    /\ WatchIdle

NextUpload ==
    \E u \in Uploads :
        \/ \E t \in Targets, len \in 0..(MaxUploadSize + 2), known \in BOOLEAN :
               UpBegin(u, t, len, known) /\ UNCHANGED othersUpload
        \/ UpEnsureDir(u) /\ UNCHANGED othersUpload
        \/ UpCheckFile(u) /\ UNCHANGED othersUpload
        \/ UpOpen(u) /\ UNCHANGED othersUpload
        \/ UpChunk(u) /\ UNCHANGED othersUpload

SpecUpload == InitUpload /\ [][NextUpload]_vars

\* Uploads that can also be interrupted by an exception.
NextUploadAbort ==
    \E u \in Uploads :
        \/ \E t \in Targets, len \in 0..(MaxUploadSize + 2), known \in BOOLEAN :
               UpBegin(u, t, len, known) /\ UNCHANGED othersUpload
        \/ UpEnsureDir(u) /\ UNCHANGED othersUpload
        \/ UpCheckFile(u) /\ UNCHANGED othersUpload
        \/ UpOpen(u) /\ UNCHANGED othersUpload
        \/ UpChunk(u) /\ UNCHANGED othersUpload
        \/ \E exc \in UpExceptions : UpRaise(u, exc) /\ UNCHANGED othersUpload

SpecUploadAbort == InitUpload /\ [][NextUploadAbort]_vars

othersTransfer ==
    <<ipVars, ruleVars, pathVars, rateVars,
      concVars, uploadVars, apiVars,
      storeVars,
      tstoreVars,
      streamVars,
      configVars,
      rangeVars,
      renameVars,
      adminVars,
      accessVars,
      updateVars,
      pipelineVars,
      quotaVars,
      limitVars,
      bucketVars,
      watchVars>>

InitTransfer ==
    /\ IpIdle
    /\ RuleIdle
    /\ PathIdle
    /\ RateIdle
    /\ ConcIdle
    /\ UploadIdle
    /\ TransferInit
    /\ ApiIdle
    /\ StoreIdle
    /\ TStoreIdle
    /\ StreamIdle
    /\ ConfigIdle
    /\ RangeIdle
    /\ RenameIdle
    /\ AdminIdle
    /\ AccessIdle
    /\ UpdateIdle
    /\ PipelineIdle
    /\ QuotaIdle
    /\ LimitIdle
    /\ BucketIdle
    /\ WatchIdle

NextTransfer ==
    \/ DtTick /\ UNCHANGED othersTransfer
    \/ \E s \in DtUsers, rcp \in DtUsers, e \in 0..1 :
           create_transfer(s, rcp, e) /\ UNCHANGED othersTransfer
    \/ \E r \in Downloads, id \in TransferIds, u \in DtUsers :
           DlIssue(r, id, u) /\ UNCHANGED othersTransfer
    \/ \E r \in Downloads : prepare_download(r) /\ UNCHANGED othersTransfer
    \/ \E r \in Downloads : cleanup_after_download(r) /\ UNCHANGED othersTransfer
    \/ \E id \in TransferIds, u \in DtUsers :
           delete_transfer(id, u) /\ UNCHANGED othersTransfer

SpecTransfer == InitTransfer /\ [][NextTransfer]_vars

othersApi ==
    <<ipVars, ruleVars, pathVars, rateVars,
      concVars, uploadVars, transferVars,
      storeVars,
      tstoreVars,
      streamVars,
      configVars,
      rangeVars,
      renameVars,
      adminVars,
      accessVars,
      updateVars,
      pipelineVars,
      quotaVars,
      limitVars,
      bucketVars,
      watchVars>>

InitApi ==
    /\ IpIdle
    /\ RuleIdle
    /\ PathIdle
    /\ RateIdle
    /\ ConcIdle
    /\ UploadIdle
    /\ TransferIdle
    /\ ApiInit
    /\ StoreIdle
    /\ TStoreIdle
    /\ StreamIdle
    /\ ConfigIdle
    /\ RangeIdle
    /\ RenameIdle
    /\ AdminIdle
    /\ AccessIdle
    /\ UpdateIdle
    /\ PipelineIdle
    /\ QuotaIdle
    /\ LimitIdle
    /\ BucketIdle
    /\ WatchIdle

NextApi ==
    \E user \in UserPool, root \in SharePool, ip \in ClientIpPool :
        \/ \E path \in RelPathPool :
               \/ list_files(user, root, path, ip) /\ UNCHANGED othersApi
               \/ download_file(user, root, path, ip) /\ UNCHANGED othersApi
               \/ \E too_large \in BOOLEAN :
                      upload_file(user, root, path, ip, too_large) /\ UNCHANGED othersApi
               \/ make_directory(user, root, path, ip) /\ UNCHANGED othersApi
               \/ rename_item(user, root, path, ip) /\ UNCHANGED othersApi
        \/ \E paths \in DeletePaths :
               delete_items(user, root, paths, ip) /\ UNCHANGED othersApi

SpecApi == InitApi /\ [][NextApi]_vars

othersStore ==
    <<ipVars, ruleVars, pathVars, rateVars,
      concVars, uploadVars, transferVars, apiVars,
      tstoreVars,
      streamVars,
      configVars,
      rangeVars,
      renameVars,
      adminVars,
      accessVars,
      updateVars,
      pipelineVars,
      quotaVars,
      limitVars,
      bucketVars,
      watchVars>>

InitStore ==
    /\ IpIdle
    /\ RuleIdle
    /\ PathIdle
    /\ RateIdle
    /\ ConcIdle
    /\ UploadIdle
    /\ TransferIdle
    /\ ApiIdle
    /\ StoreIdle
    /\ TStoreIdle
    /\ StreamIdle
    /\ ConfigIdle
    /\ RangeIdle
    /\ RenameIdle
    /\ AdminIdle
    /\ AccessIdle
    /\ UpdateIdle
    /\ PipelineIdle
    /\ QuotaIdle
    /\ LimitIdle
    /\ BucketIdle
    /\ WatchIdle

NextStore ==
    \/ \E store \in Stores : AtomicWriteOpen(store) /\ UNCHANGED othersStore
    \/ AtomicWriteDump /\ UNCHANGED othersStore
    \/ AtomicWriteReplace /\ UNCHANGED othersStore
    \/ AtomicWriteAbort /\ UNCHANGED othersStore
    \/ \E store \in Stores : LoadStore(store) /\ UNCHANGED othersStore

SpecStore == InitStore /\ [][NextStore]_vars

othersTStore ==
    <<ipVars, ruleVars, pathVars, rateVars,
      concVars, uploadVars, apiVars,
      storeVars,
      streamVars,
      configVars,
      rangeVars,
      renameVars,
      adminVars,
      accessVars,
      updateVars,
      pipelineVars,
      quotaVars,
      limitVars,
      bucketVars,
      watchVars>>

InitTStore ==
    /\ IpIdle
    /\ RuleIdle
    /\ PathIdle
    /\ RateIdle
    /\ ConcIdle
    /\ UploadIdle
    /\ TransferInit
    /\ ApiIdle
    /\ StoreIdle
    /\ TStoreIdle
    /\ StreamIdle
    /\ ConfigIdle
    /\ RangeIdle
    /\ RenameIdle
    /\ AdminIdle
    /\ AccessIdle
    /\ UpdateIdle
    /\ PipelineIdle
    /\ QuotaIdle
    /\ LimitIdle
    /\ BucketIdle
    /\ WatchIdle

filesKept == <<cr_pc, cr_len, dt_tmp, dt_size, dt_len>>

NextTStore ==
    \/ DtTick /\ UNCHANGED tstoreVars /\ UNCHANGED othersTStore
    \/ \E c \in Creates, len \in 1..(MaxUploadSize + 1) :
           CrBegin(c, len) /\ UNCHANGED othersTStore
    \/ \E c \in Creates : CrWrite(c) /\ UNCHANGED othersTStore
    \/ \E c \in Creates, exc \in UpExceptions :
           CrRaise(c, exc) /\ UNCHANGED othersTStore
    \/ \E c \in Creates, s \in DtUsers, rcp \in DtUsers, e \in 0..1 :
           CrCommit(c, s, rcp, e) /\ UNCHANGED othersTStore
    \/ list_transfers /\ UNCHANGED othersTStore
    \/ \E r \in Downloads, id \in TransferIds, u \in DtUsers :
           DlIssue(r, id, u) /\ UNCHANGED tstoreVars /\ UNCHANGED othersTStore
    \/ \E r \in Downloads :
           prepare_download(r) /\ SaveIfChanged /\ UNCHANGED filesKept
               /\ UNCHANGED othersTStore
    \/ \E r \in Downloads :
           cleanup_after_download(r) /\ UNCHANGED tstoreVars /\ UNCHANGED othersTStore
    \/ \E id \in TransferIds, u \in DtUsers :
           delete_transfer(id, u) /\ SaveIfChanged /\ UNCHANGED filesKept
               /\ UNCHANGED othersTStore

SpecTStore == InitTStore /\ [][NextTStore]_vars

othersStream ==
    <<ipVars, ruleVars, pathVars, rateVars,
      concVars, uploadVars, apiVars,
      storeVars,
      configVars,
      rangeVars,
      renameVars,
      adminVars,
      accessVars,
      updateVars,
      pipelineVars,
      quotaVars,
      limitVars,
      bucketVars,
      watchVars>>

InitStream ==
    /\ IpIdle
    /\ RuleIdle
    /\ PathIdle
    /\ RateIdle
    /\ ConcIdle
    /\ UploadIdle
    /\ TransferInit
    /\ ApiIdle
    /\ StoreIdle
    /\ TStoreIdle
    /\ StreamIdle
    /\ ConfigIdle
    /\ RangeIdle
    /\ RenameIdle
    /\ AdminIdle
    /\ AccessIdle
    /\ UpdateIdle
    /\ PipelineIdle
    /\ QuotaIdle
    /\ LimitIdle
    /\ BucketIdle
    /\ WatchIdle

NextStream ==
    \/ DtTick /\ UNCHANGED <<tstoreVars, streamVars>> /\ UNCHANGED othersStream
    \/ \E c \in Creates, len \in 1..(MaxUploadSize + 1) :
           CrBegin(c, len) /\ UNCHANGED streamVars /\ UNCHANGED othersStream
    \/ \E c \in Creates : CrWrite(c) /\ UNCHANGED streamVars /\ UNCHANGED othersStream
    \/ \E c \in Creates, exc \in UpExceptions :
           CrRaise(c, exc) /\ UNCHANGED streamVars /\ UNCHANGED othersStream
    \/ \E c \in Creates, s \in DtUsers, rcp \in DtUsers, e \in 0..1 :
           CrCommit(c, s, rcp, e) /\ UNCHANGED streamVars /\ UNCHANGED othersStream
    \/ list_transfers /\ UNCHANGED streamVars /\ UNCHANGED othersStream
    \/ \E r \in Downloads, id \in TransferIds, u \in DtUsers :
           DlIssue(r, id, u) /\ UNCHANGED <<tstoreVars, streamVars>>
               /\ UNCHANGED othersStream
    \/ \E r \in Downloads :
           prepare_download(r) /\ SaveIfChanged /\ UNCHANGED filesKept
               /\ UNCHANGED streamVars /\ UNCHANGED othersStream
    \/ \E r \in Downloads : StreamOpenError(r) /\ UNCHANGED othersStream
    \/ \E r \in Downloads : StreamChunk(r) /\ UNCHANGED othersStream
    \/ \E r \in Downloads : StreamEnd(r) /\ UNCHANGED othersStream
    \/ \E r \in Downloads : StreamDisconnect(r) /\ UNCHANGED othersStream
    \/ \E r \in Downloads : StreamReadError(r) /\ UNCHANGED othersStream
    \/ \E id \in TransferIds, u \in DtUsers :
           delete_transfer(id, u) /\ SaveIfChanged /\ UNCHANGED filesKept
               /\ UNCHANGED streamVars /\ UNCHANGED othersStream

\* The event loop runs every response task until it ends.
SpecStream ==
    /\ InitStream
    /\ [][NextStream]_vars
    /\ \A r \in Downloads : WF_vars(StreamStep(r) /\ UNCHANGED othersStream)

othersConfig ==
    <<ipVars, ruleVars, pathVars, rateVars,
      concVars, uploadVars, transferVars, apiVars,
      storeVars, tstoreVars, streamVars,
      rangeVars,
      renameVars,
      adminVars,
      accessVars,
      updateVars,
      pipelineVars,
      quotaVars,
      limitVars,
      bucketVars,
      watchVars>>

InitConfig ==
    /\ IpIdle
    /\ RuleIdle
    /\ PathIdle
    /\ RateIdle
    /\ ConcIdle
    /\ UploadIdle
    /\ TransferIdle
    /\ ApiIdle
    /\ StoreIdle
    /\ TStoreIdle
    /\ StreamIdle
    /\ ConfigInit
    /\ RangeIdle
    /\ RenameIdle
    /\ AdminIdle
    /\ AccessIdle
    /\ UpdateIdle
    /\ PipelineIdle
    /\ QuotaIdle
    /\ LimitIdle
    /\ BucketIdle
    /\ WatchIdle

NextConfig ==
    \/ \E u \in UsernamePool, p \in PasswordPool, c \in PasswordPool :
           register_user(u, p, c) /\ UNCHANGED othersConfig
    \/ \E u \in UsernamePool, p \in PasswordPool :
           get_session(u, p) /\ UNCHANGED othersConfig
    \/ \E ok \in BOOLEAN : EditYaml(ok) /\ UNCHANGED othersConfig
    \/ _on_config_changed /\ UNCHANGED othersConfig

SpecConfig == InitConfig /\ [][NextConfig]_vars

othersRange ==
    <<ipVars, ruleVars, pathVars, rateVars,
      concVars, uploadVars, transferVars, apiVars,
      storeVars, tstoreVars, streamVars, configVars,
      renameVars,
      adminVars,
      accessVars,
      updateVars,
      pipelineVars,
      quotaVars,
      limitVars,
      bucketVars,
      watchVars>>

InitRange ==
    /\ IpIdle
    /\ RuleIdle
    /\ PathIdle
    /\ RateIdle
    /\ ConcIdle
    /\ UploadIdle
    /\ TransferIdle
    /\ ApiIdle
    /\ StoreIdle
    /\ TStoreIdle
    /\ StreamIdle
    /\ ConfigIdle
    /\ RangeInit
    /\ RenameIdle
    /\ AdminIdle
    /\ AccessIdle
    /\ UpdateIdle
    /\ PipelineIdle
    /\ QuotaIdle
    /\ LimitIdle
    /\ BucketIdle
    /\ WatchIdle

NextRange ==
    DownloadRange /\ UNCHANGED othersRange

SpecRange == InitRange /\ [][NextRange]_vars

othersRename ==
    <<ipVars,
      ruleVars,
      pathVars,
      rateVars,
      concVars,
      uploadVars,
      transferVars,
      apiVars,
      storeVars,
      tstoreVars,
      streamVars,
      configVars,
      rangeVars,
      adminVars,
      accessVars,
      updateVars,
      pipelineVars,
      quotaVars,
      limitVars,
      bucketVars,
      watchVars>>

InitRename ==
    /\ IpIdle
    /\ RuleIdle
    /\ PathIdle
    /\ RateIdle
    /\ ConcIdle
    /\ UploadIdle
    /\ TransferIdle
    /\ ApiIdle
    /\ StoreIdle
    /\ TStoreIdle
    /\ StreamIdle
    /\ ConfigIdle
    /\ RangeIdle
    /\ RenameIdle
    /\ AdminIdle
    /\ AccessIdle
    /\ UpdateIdle
    /\ PipelineIdle
    /\ QuotaIdle
    /\ LimitIdle
    /\ BucketIdle
    /\ WatchIdle

NextRename ==
    \E path \in RenamePaths, new_name \in RenameNames :
        RenameItem(path, new_name) /\ UNCHANGED othersRename

SpecRename == InitRename /\ [][NextRename]_vars

othersAdmin ==
    <<ipVars,
      ruleVars,
      pathVars,
      rateVars,
      concVars,
      uploadVars,
      transferVars,
      apiVars,
      storeVars,
      tstoreVars,
      streamVars,
      configVars,
      rangeVars,
      renameVars,
      accessVars,
      updateVars,
      pipelineVars,
      quotaVars,
      limitVars,
      bucketVars,
      watchVars>>

InitAdmin ==
    /\ IpIdle
    /\ RuleIdle
    /\ PathIdle
    /\ RateIdle
    /\ ConcIdle
    /\ UploadIdle
    /\ TransferIdle
    /\ ApiIdle
    /\ StoreIdle
    /\ TStoreIdle
    /\ StreamIdle
    /\ ConfigIdle
    /\ RangeIdle
    /\ RenameIdle
    /\ AdminIdle
    /\ AccessIdle
    /\ UpdateIdle
    /\ PipelineIdle
    /\ QuotaIdle
    /\ LimitIdle
    /\ BucketIdle
    /\ WatchIdle

NextAdmin ==
    \E route \in AdminRoutes, authorization \in AdminAuthorizations,
       forwarded_for \in ForwardedForPool, real_ip \in RealIpPool,
       cf_ip \in CfIpPool, client \in ClientPool :
        AdminEndpoint(route, authorization, forwarded_for, real_ip, cf_ip, client)
            /\ UNCHANGED othersAdmin

SpecAdmin == InitAdmin /\ [][NextAdmin]_vars

othersAccess ==
    <<ipVars,
      ruleVars,
      pathVars,
      rateVars,
      concVars,
      uploadVars,
      apiVars,
      storeVars,
      streamVars,
      configVars,
      rangeVars,
      renameVars,
      adminVars,
      updateVars,
      pipelineVars,
      quotaVars,
      limitVars,
      bucketVars,
      watchVars>>

InitAccess ==
    /\ IpIdle
    /\ RuleIdle
    /\ PathIdle
    /\ RateIdle
    /\ ConcIdle
    /\ UploadIdle
    /\ TransferIdle
    /\ ApiIdle
    /\ StoreIdle
    /\ TStoreIdle
    /\ StreamIdle
    /\ ConfigIdle
    /\ RangeIdle
    /\ RenameIdle
    /\ AdminIdle
    /\ AccessIdle
    /\ UpdateIdle
    /\ PipelineIdle
    /\ QuotaIdle
    /\ LimitIdle
    /\ BucketIdle
    /\ WatchIdle

NextAccess ==
    \/ DtTick /\ UNCHANGED <<tstoreVars, accessVars>> /\ UNCHANGED othersAccess
    \/ \E s \in AccessUsers, rcp \in AccessUsers, e \in 0..1 :
           create_transfer(s, rcp, e) /\ SaveIfChanged
               /\ UNCHANGED <<filesKept, accessVars>> /\ UNCHANGED othersAccess
    \/ \E r \in Downloads, id \in TransferIds, u \in AccessUsers :
           DlIssue(r, id, u) /\ UNCHANGED <<tstoreVars, accessVars>>
               /\ UNCHANGED othersAccess
    \/ \E r \in Downloads :
           download_direct_transfer(r) /\ SaveIfChanged /\ UNCHANGED filesKept
               /\ UNCHANGED othersAccess
    \/ \E r \in Downloads :
           cleanup_after_download(r) /\ UNCHANGED <<tstoreVars, accessVars>>
               /\ UNCHANGED othersAccess
    \/ \E id \in TransferIds, u \in AccessUsers :
           delete_direct_transfer(id, u) /\ SaveIfChanged /\ UNCHANGED filesKept
               /\ UNCHANGED othersAccess
    \/ \E u \in AccessUsers, direction \in {"incoming", "outgoing"} :
           list_direct_transfers(u, direction) /\ UNCHANGED othersAccess

SpecAccess == InitAccess /\ [][NextAccess]_vars

othersUpdate ==
    <<ruleVars,
      pathVars,
      rateVars,
      concVars,
      uploadVars,
      transferVars,
      apiVars,
      storeVars,
      tstoreVars,
      streamVars,
      configVars,
      rangeVars,
      renameVars,
      accessVars,
      adminVars,
      pipelineVars,
      quotaVars,
      limitVars,
      bucketVars,
      watchVars>>

InitUpdate ==
    /\ IpInit
    /\ RuleIdle
    /\ PathIdle
    /\ RateIdle
    /\ ConcIdle
    /\ UploadIdle
    /\ TransferIdle
    /\ ApiIdle
    /\ StoreIdle
    /\ TStoreIdle
    /\ StreamIdle
    /\ ConfigIdle
    /\ RangeIdle
    /\ RenameIdle
    /\ AdminIdle
    /\ AccessIdle
    /\ UpdateIdle
    /\ PipelineIdle
    /\ QuotaIdle
    /\ LimitIdle
    /\ BucketIdle
    /\ WatchIdle

NextUpdate ==
    \/ CheckIp /\ UNCHANGED updateVars /\ UNCHANGED othersUpdate
    \/ \E c \in CidrPool, k \in 0..MaxList :
           k <= Len(allow_list) /\ update_rules(c, k) /\ UNCHANGED othersUpdate
    \/ IsAllowedAgain /\ UNCHANGED othersUpdate

SpecUpdate == InitUpdate /\ [][NextUpdate]_vars

othersPipeline ==
    <<ipVars,
      ruleVars,
      pathVars,
      rateVars,
      concVars,
      uploadVars,
      transferVars,
      tstoreVars,
      streamVars,
      apiVars,
      storeVars,
      configVars,
      rangeVars,
      renameVars,
      adminVars,
      accessVars,
      updateVars,
      quotaVars,
      limitVars,
      bucketVars,
      watchVars>>

InitPipeline ==
    /\ IpIdle
    /\ RuleIdle
    /\ PathIdle
    /\ RateIdle
    /\ ConcIdle
    /\ UploadIdle
    /\ TransferIdle
    /\ ApiIdle
    /\ StoreIdle
    /\ TStoreIdle
    /\ StreamIdle
    /\ ConfigIdle
    /\ RangeIdle
    /\ RenameIdle
    /\ AdminIdle
    /\ AccessIdle
    /\ UpdateIdle
    /\ PipelineIdle
    /\ QuotaIdle
    /\ LimitIdle
    /\ BucketIdle
    /\ WatchIdle

NextPipeline ==
    \/ (\E r \in PlRequests, e \in PlEndpoints, c \in PlClients, a \in PlAuthorizations :
            PlArrive(r, e, c, a)) /\ UNCHANGED othersPipeline
    \/ (\E r \in PlRequests : PlDispatch(r)) /\ UNCHANGED othersPipeline
    \/ (\E r \in PlRequests : PlAcquireTimeout(r)) /\ UNCHANGED othersPipeline
    \/ (\E r \in PlRequests : PlEndpoint(r)) /\ UNCHANGED othersPipeline
    \/ (\E r \in PlRequests : PlReturn(r)) /\ UNCHANGED othersPipeline
    \/ PlTick /\ UNCHANGED othersPipeline

SpecPipeline == InitPipeline /\ [][NextPipeline]_vars

othersQuota ==
    <<ipVars,
      ruleVars,
      pathVars,
      rateVars,
      concVars,
      uploadVars,
      transferVars,
      tstoreVars,
      streamVars,
      apiVars,
      storeVars,
      configVars,
      rangeVars,
      renameVars,
      adminVars,
      accessVars,
      updateVars,
      pipelineVars,
      limitVars,
      bucketVars,
      watchVars>>

InitQuota ==
    /\ IpIdle
    /\ RuleIdle
    /\ PathIdle
    /\ RateIdle
    /\ ConcIdle
    /\ UploadIdle
    /\ TransferIdle
    /\ ApiIdle
    /\ StoreIdle
    /\ TStoreIdle
    /\ StreamIdle
    /\ ConfigIdle
    /\ RangeIdle
    /\ RenameIdle
    /\ AdminIdle
    /\ AccessIdle
    /\ UpdateIdle
    /\ PipelineIdle
    /\ QuotaIdle
    /\ LimitIdle
    /\ BucketIdle
    /\ WatchIdle

NextQuota ==
    \/ (\E c \in Callers, force \in BOOLEAN : get_usage(c, force)) /\ UNCHANGED othersQuota
    \/ (\E c \in Callers : get_usage_resume(c)) /\ UNCHANGED othersQuota
    \/ (\E c \in Callers : get_usage_return(c)) /\ UNCHANGED othersQuota
    \/ (\E c \in Callers : get_usage_cancelled(c)) /\ UNCHANGED othersQuota
    \/ invalidate /\ UNCHANGED othersQuota
    \/ QmDelete /\ UNCHANGED othersQuota
    \/ QmRename /\ UNCHANGED othersQuota

SpecQuota == InitQuota /\ [][NextQuota]_vars

othersLimit ==
    <<ipVars,
      ruleVars,
      pathVars,
      rateVars,
      concVars,
      uploadVars,
      transferVars,
      tstoreVars,
      streamVars,
      apiVars,
      storeVars,
      configVars,
      rangeVars,
      renameVars,
      adminVars,
      accessVars,
      updateVars,
      pipelineVars,
      quotaVars,
      bucketVars,
      watchVars>>

InitLimit ==
    /\ IpIdle
    /\ RuleIdle
    /\ PathIdle
    /\ RateIdle
    /\ ConcIdle
    /\ UploadIdle
    /\ TransferIdle
    /\ ApiIdle
    /\ StoreIdle
    /\ TStoreIdle
    /\ StreamIdle
    /\ ConfigIdle
    /\ RangeIdle
    /\ RenameIdle
    /\ AdminIdle
    /\ AccessIdle
    /\ UpdateIdle
    /\ PipelineIdle
    /\ QuotaIdle
    /\ LimitIdle
    /\ BucketIdle
    /\ WatchIdle

NextLimit ==
    \/ (\E r \in UlRequests : UlArrive(r)) /\ UNCHANGED othersLimit
    \/ (\E r \in UlRequests : UlAcquire(r)) /\ UNCHANGED othersLimit
    \/ (\E r \in UlRequests : UlTimeout(r)) /\ UNCHANGED othersLimit
    \/ (\E r \in UlRequests : UlReturn(r)) /\ UNCHANGED othersLimit
    \/ (\E n \in 1..MaxConcurrent : update_limit(n)) /\ UNCHANGED othersLimit

SpecLimit == InitLimit /\ [][NextLimit]_vars

othersBucket ==
    <<ipVars,
      ruleVars,
      pathVars,
      rateVars,
      concVars,
      uploadVars,
      transferVars,
      tstoreVars,
      streamVars,
      apiVars,
      storeVars,
      configVars,
      rangeVars,
      renameVars,
      adminVars,
      accessVars,
      updateVars,
      pipelineVars,
      quotaVars,
      limitVars,
      watchVars>>

InitBucket ==
    /\ IpIdle
    /\ RuleIdle
    /\ PathIdle
    /\ RateIdle
    /\ ConcIdle
    /\ UploadIdle
    /\ TransferIdle
    /\ ApiIdle
    /\ StoreIdle
    /\ TStoreIdle
    /\ StreamIdle
    /\ ConfigIdle
    /\ RangeIdle
    /\ RenameIdle
    /\ AdminIdle
    /\ AccessIdle
    /\ UpdateIdle
    /\ PipelineIdle
    /\ QuotaIdle
    /\ LimitIdle
    /\ BucketIdle
    /\ WatchIdle

NextBucket ==
    \/ (\E n \in 0..MaxConsume, dt \in 0..MaxStep : BucketConsume(n, dt))
           /\ UNCHANGED othersBucket
    \/ (\E rate \in 1..MaxRate, b \in 1..MaxBurst, dt \in 0..MaxStep :
            BucketUpdateLimits(rate, b, dt)) /\ UNCHANGED othersBucket

SpecBucket == InitBucket /\ [][NextBucket]_vars

othersWatch ==
    <<ipVars,
      ruleVars,
      pathVars,
      rateVars,
      concVars,
      uploadVars,
      transferVars,
      tstoreVars,
      streamVars,
      apiVars,
      storeVars,
      configVars,
      rangeVars,
      renameVars,
      adminVars,
      accessVars,
      updateVars,
      pipelineVars,
      quotaVars,
      limitVars,
      bucketVars>>

InitWatch ==
    /\ IpIdle
    /\ RuleIdle
    /\ PathIdle
    /\ RateIdle
    /\ ConcIdle
    /\ UploadIdle
    /\ TransferIdle
    /\ ApiIdle
    /\ StoreIdle
    /\ TStoreIdle
    /\ StreamIdle
    /\ ConfigIdle
    /\ RangeIdle
    /\ RenameIdle
    /\ AdminIdle
    /\ AccessIdle
    /\ UpdateIdle
    /\ PipelineIdle
    /\ QuotaIdle
    /\ LimitIdle
    /\ BucketIdle
    /\ WatchIdle

NextWatch ==
    \/ (\E ok \in BOOLEAN : WtEdit(ok)) /\ UNCHANGED othersWatch
    \/ WtOther /\ UNCHANGED othersWatch
    \/ on_modified /\ UNCHANGED othersWatch
    \/ WtTick /\ UNCHANGED othersWatch

\* The observer thread dispatches every queued event and the clock advances.
SpecWatch ==
    /\ InitWatch
    /\ [][NextWatch]_vars
    /\ WF_vars(on_modified /\ UNCHANGED othersWatch)
    /\ WF_vars(WtTick /\ UNCHANGED othersWatch)

\* ------------------------------------------------------------------ claims

\* C1: at-most-once delivery.  For every transfer, among the download
\* requests of its recipient that were served, at most one succeeded and all
\* the others got 404; and unless the transfer expired or was cancelled
\* before any of them was served, exactly one succeeded.
C1_AtMostOnceDelivery ==
    \A id \in TransferIds :
        LET served == { r \in Downloads :
                          /\ dl_pc[r] \in {"streaming", "done"}
                          /\ dl_req[r].id = id
                          /\ dl_req[r].user = dt_meta[id].recipient }
            succeeded == { r \in served : dl_result[r] = "ok" }
        IN /\ Cardinality(succeeded) <= 1
           /\ \A r \in served \ succeeded : dl_result[r] = "404"
           /\ (served # {} /\ dt_fate[id] \notin {"expired", "cancelled"})
                  => Cardinality(succeeded) = 1

\* C1 happens: two requests of the recipient for one transfer were both
\* waiting, then served: one succeeded, the other got 404.
C1_Witness ==
    \E id \in TransferIds, r1 \in Downloads, r2 \in Downloads :
        /\ r1 # r2
        /\ dl_req[r1] = [id |-> id, user |-> dt_meta[id].recipient]
        /\ dl_req[r2] = dl_req[r1]
        /\ dl_result[r1] = "ok"
        /\ dl_result[r2] = "404"
        /\ dt_fate[id] = "delivered"

\* C2: safe_join fails with a traversal or filesystem error, or returns a
\* canonical path that is the resolved root or lies below it.
C2_SafeJoinContained ==
    /\ sj_result.kind \in {"pending", "idle", "ok", "traversal", "fserror"}
    /\ sj_result.kind = "ok" =>
          /\ StartsWith(sj_result.path, resolve(ShareRoot, fs_links).path)
          /\ resolve(sj_result.path, fs_links) = [ok |-> TRUE, path |-> sj_result.path]
          /\ \A i \in 1..Len(sj_result.path) :
                 sj_result.path[i] \notin {<<>>, Dot, DotDot}

\* C2 happens: a symbolic link inside the root points outside of it and the
\* path through it is refused.
C2_Witness ==
    /\ sj_result.kind = "traversal"
    /\ fs_links = { Link(ShareRoot \o << <<"l">> >>, << <<"e">> >>) }
    /\ sj_rel = <<"l", "/", "a">>

\* C3: evaluate allows if and only if the user is not nil and some
\* configured rule has who = user or "*", the operation in allow, the share
\* in roots (or "*" in roots), a path entry that matches, and an IP filter
\* that admits the client; else it denies.
C3_DefaultDeny ==
    rq_result.reason \notin {"pending", "idle"} =>
        (rq_result.allowed <=>
            /\ rq_user # NoUser
            /\ \E i \in 1..Len(cfg_rules) :
                  LET rule == cfg_rules[i]
                      p == RulePathNorm(rq_path)
                  IN /\ rule.who = rq_user \/ rule.who = "*"
                     /\ rq_op \in rule.allow
                     /\ rq_root \in rule.roots \/ "*" \in rule.roots
                     /\ \E j \in 1..Len(rule.paths) :
                           LET e == RulePathNorm(rule.paths[j])
                           IN \/ e = <<"/", "*">>
                              \/ p = e
                              \/ EndsWith(e, <<"/">>) /\ StartsWith(p, e)
                              \/ StartsWith(p, e \o <<"/">>)
                     /\ check_ip_allowed(rq_ip, rule.ip_allow, rule.ip_deny))

\* C3 happens: the first rule of the user refuses and the second one allows.
C3_Witness ==
    /\ rq_result.allowed
    /\ Len(cfg_rules) = 2
    /\ cfg_rules[1].who = rq_user
    /\ ~_evaluate_rule(cfg_rules[1], rq_op, rq_root, rq_path, rq_ip).allowed

\* C4: every storage gateway call of a request is for the request's
\* operation, share and path, and the evaluator allows the permission the
\* operation maps to (list, download: R; upload, mkdir, rename: W; delete: D)
\* for the same user, share, path and client IP; a path the evaluator denies
\* gets no call, and a request denied on all its paths changes no file.
C4_StorageAfterAllow ==
    LET perm(op) == CASE op \in {"list", "download"} -> "R"
                      [] op \in {"upload", "mkdir", "rename"} -> "W"
                      [] op = "delete" -> "D"
                      [] OTHER -> "none"
        allows(path) == evaluate(api_rules, api_req.user, perm(api_req.op),
                                 api_req.root, path, api_req.ip).allowed
        paths == { api_req.paths[i] : i \in 1..Len(api_req.paths) }
    IN /\ \A i \in 1..Len(api_calls) :
              /\ api_calls[i].op = api_req.op
              /\ api_calls[i].root = api_req.root
              /\ api_calls[i].path \in paths
              /\ allows(api_calls[i].path)
       /\ \A path \in paths :
              ~allows(path) => \A i \in 1..Len(api_calls) : api_calls[i].path # path
       /\ (\A path \in paths : ~allows(path)) =>
              api_calls = <<>> /\ api_files = api_prev_files

\* C4 happens: an upload was allowed, reached the gateway and created a file.
C4_Witness ==
    /\ api_req.op = "upload"
    /\ api_calls # <<>>
    /\ api_status = "200"
    /\ api_files # api_prev_files

\* C5: check_ip_allowed follows the decision table over the most specific
\* allow and deny networks of the address's family that contain it: allow
\* only: allow; both: allow iff the allow prefix is at least as long; deny
\* only: deny; neither: allow iff the allow list is empty; an empty or
\* unparsable address: deny.
C5_DecisionTable ==
    ip_result \in {"allow", "deny"} =>
        LET ip == ip_address(ip_str)
            nets(list) == { parse_cidr(list[i]) : i \in 1..Len(list) } \ {NoNet}
            hits(list) == { n \in nets(list) : n.ver = ip.ver /\ InNet(ip, n) }
            A == hits(allow_list)
            D == hits(deny_list)
            longest(S) == CHOOSE n \in { prefixlen(m) : m \in S } :
                              \A m \in S : prefixlen(m) <= n
            expected == IF ip_str.kind # "addr" THEN FALSE
                        ELSE IF A # {} /\ D = {} THEN TRUE
                        ELSE IF A # {} /\ D # {} THEN longest(A) >= longest(D)
                        ELSE IF D # {} THEN FALSE
                        ELSE allow_list = <<>>
        IN ip_result = (IF expected THEN "allow" ELSE "deny")


\* C6: concurrency cap.  At most max_concurrent requests are past the
\* middleware and not yet finished, and a request answered 429 with
\* Retry-After: 1 never reached the downstream handler.
C6_ConcurrencyCap ==
    /\ Cardinality({ r \in Requests : cl_pc[r] = "inside" }) <= MaxConcurrent
    /\ \A r \in Requests : cl_status[r] = "429 Retry-After: 1" => ~cl_reached[r]

\* C7: permits are never leaked.  The free permits and the requests inside
\* add up to max_concurrent at least, so once every admitted request has
\* finished (by return, exception or cancellation) max_concurrent requests
\* can be admitted at the same time again.
C7_NoPermitLeak ==
    sem_value + Cardinality({ r \in Requests : cl_pc[r] = "inside" }) >= MaxConcurrent

\* C7 happens: requests left by return, by exception and by cancellation,
\* none is inside and the permits are back.
C7_Witness ==
    /\ \E r \in Requests : cl_status[r] = "returned"
    /\ \E r \in Requests : cl_status[r] = "raised"
    /\ \E r \in Requests : cl_status[r] = "cancelled"
    /\ \A r \in Requests : cl_pc[r] # "inside"
    /\ sem_value >= MaxConcurrent

\* C8 as stated: with rps = 50, burst = 100 and a full bucket, the 101st
\* request of 101 arriving within one second is answered 429 with
\* Retry-After: 1.
C8_Rejected101stInOneSecond ==
    (rl_count = burst + 1 /\ rl_now - rl_first <= TicksPerSecond)
        => rl_status = [code |-> 429, retry_after |-> "1"]

\* C8 amended: the 101st request is answered 429 with Retry-After: 1 when
\* all 101 arrive within less than 1 / rps second (before one token is
\* refilled).
C8_Rejected101stInBurst ==
    (rl_count = burst + 1 /\ rl_now - rl_first < TickDen)
        => rl_status = [code |-> 429, retry_after |-> "1"]

\* C8 happens: 101 requests arrived over a positive time shorter than the
\* refill of one token and the last one got 429.
C8_Witness ==
    /\ rl_count = burst + 1
    /\ rl_now - rl_first > 0
    /\ rl_now - rl_first < TickDen
    /\ rl_status = [code |-> 429, retry_after |-> "1"]
    /\ rate_limit_hits = 1

\* C9: upload size cap.  An upload that no other upload shares its target
\* with, to a target that did not exist, succeeds with a payload of up to
\* max_size bytes (exactly max_size included) and the file holds all of its
\* bytes; with a payload of max_size + 1 bytes or more it fails and no file
\* exists at the target.
C9_SizeCapBoundary ==
    \A u \in Uploads :
        (/\ up_pc[u] = "done"
         /\ up_req[u].target = "g"
         /\ \A v \in Uploads \ {u} : up_pc[v] = "idle" \/ up_req[v].target # "g")
        => IF up_req[u].len <= MaxUploadSize
           THEN /\ up_result[u] = "ok"
                /\ disk_dir["g"] # NoInode
                /\ ino_data[disk_dir["g"]] = Payload(u, up_req[u].len)
           ELSE /\ up_result[u] # "ok"
                /\ disk_dir["g"] = NoInode

\* C9 happens: an upload of exactly max_size bytes to a new target is done
\* and succeeded.
C9_Witness ==
    \E u \in Uploads :
        /\ up_pc[u] = "done"
        /\ up_req[u] = [target |-> "g", len |-> MaxUploadSize, known |-> FALSE]
        /\ \A v \in Uploads \ {u} : up_pc[v] = "idle"
        /\ up_result[u] = "ok"
        /\ ino_data[disk_dir["g"]] = Payload(u, MaxUploadSize)

\* C10: an upload to an existing target is rejected and the existing file is
\* never overwritten, truncated or deleted; of the uploads to one target at
\* most one succeeds, and once they are all done the file holds exactly the
\* successful upload's payload.
C10_NoOverwrite ==
    /\ disk_dir["f"] = 0 /\ ino_data[0] = <<-1>>
    /\ \A u \in Uploads :
           (up_pc[u] = "done" /\ up_req[u].target = "f") => up_result[u] # "ok"
    /\ \A u \in Uploads, v \in Uploads :
           (/\ u # v
            /\ up_req[u].target = up_req[v].target
            /\ up_result[u] = "ok")
           => up_result[v] # "ok"
    /\ \A u \in Uploads :
           (/\ up_result[u] = "ok"
            /\ \A v \in Uploads : up_pc[v] \in {"idle", "done"})
           => /\ disk_dir[up_req[u].target] # NoInode
              /\ ino_data[disk_dir[up_req[u].target]] = Payload(u, up_req[u].len)

\* C11: an upload that does not complete successfully leaves no file at the
\* target path.  For every upload that opened its target and then ended
\* without success (size cap, OS error, cancellation or stream error), with
\* no other upload to the same target, the target has no file.
C11_AbortLeavesNoFile ==
    \A u \in Uploads :
        (/\ up_pc[u] = "done"
         /\ up_result[u] \in {"too_large", "oserror", "cancelled"}
         /\ up_req[u].target = "g"
         /\ \A v \in Uploads \ {u} : up_pc[v] = "idle" \/ up_req[v].target # "g")
        => disk_dir["g"] = NoInode

\* C12: quota enforcement on upload.  Whenever no upload is in progress the
\* share's on-disk usage is within its quota_bytes: it is within the quota
\* before any upload, and an upload whose completion would bring it above
\* fails and its file is deleted.
C12_UsageWithinQuota ==
    (\A u \in Uploads : up_pc[u] \in {"idle", "done"})
    => ensure_within_quota(quota_bytes, _calculate_usage(disk_dir, ino_data))

\* C13: atomic-rename discipline of the JSON stores.  Every live store file
\* is absent or holds one complete document; while a write is in progress,
\* and after it was aborted before the rename, the live file holds what it
\* held when the write began; once the rename is done it holds the complete
\* new document; and every read returned nothing or a complete document.
C13_AtomicRename ==
    /\ \A store \in Stores :
           \/ st_files[STORE_PATH(store)] = Absent
           \/ Complete(st_files[STORE_PATH(store)])
    /\ st_pc \in {"dump", "aborted"} => st_files[STORE_PATH(st_store)] = st_old
    /\ (st_pc = "idle" /\ st_writes > 0)
           => st_files[STORE_PATH(st_store)] = Document(st_writes)
    /\ st_read = Absent \/ Complete(st_read)

\* C13 happens: the second write of a store was aborted with half of the
\* document in the .tmp file, and a read after that returned the first
\* document.
C13_Witness ==
    /\ st_pc = "aborted"
    /\ st_writes = 2
    /\ st_files[with_suffix(STORE_PATH(st_store), "tmp")] = <<2>>
    /\ st_old = Document(1)
    /\ st_read = Document(1)

\* C14: every live entry of the direct-transfer store, in memory and in
\* transfers.json, refers to a payload file that exists and holds the whole
\* upload.
C14_LiveEntryHasPayload ==
    \A id \in dt_entries \cup dt_persisted :
        /\ id \in dt_payload
        /\ dt_size[id] = dt_len[id]

\* C14 happens: a transfer of two pieces is live in memory and on disk while
\* its create request is done.
C14_Witness ==
    \E id \in dt_entries \cap dt_persisted :
        /\ dt_len[id] = 2
        /\ dt_size[id] = 2
        /\ id \in dt_payload
        /\ \E c \in Creates : cr_pc[c] = "done"

\* C15: after prepare_download has succeeded for a download request, the
\* payload file of its transfer is eventually deleted, however the streaming
\* ends.
C15_PayloadEventuallyDeleted ==
    \A r \in Downloads :
        (dl_pc[r] = "streaming") ~> (dl_req[r].id \notin dt_payload)

\* C16: no payload byte is delivered while the transfer's entry is still in
\* the metadata.  For every download request that is streaming or has sent
\* a piece, the entry of its transfer is neither in transfers.json nor in
\* memory.
C16_RemovalBeforeFirstByte ==
    \A r \in Downloads :
        (dl_pc[r] = "streaming" \/ dl_sent[r] > 0)
        => /\ dl_req[r].id \notin dt_persisted
           /\ dl_req[r].id \notin dt_entries

\* C16 happens: a download has delivered the first piece of a payload of two
\* and is still streaming, after the transfer had been persisted by create.
C16_Witness ==
    \E r \in Downloads :
        /\ dl_pc[r] = "streaming"
        /\ dl_sent[r] = 1
        /\ dt_size[dl_req[r].id] = 2
        /\ dt_fate[dl_req[r].id] = "delivered"
        /\ dl_req[r].id \notin dt_persisted

\* C17: registration round trip.  When POST /register has succeeded for a
\* user name and password, the request right after it that signs in with
\* that name and password is accepted.
C17_RegisterThenAuthenticate ==
    (/\ cf_prev.op = "register"
     /\ cf_prev.status = 200
     /\ cf_last.op = "session"
     /\ cf_last.name = cf_prev.name
     /\ cf_last.password = cf_prev.password)
    => cf_last.status = 200

\* C18: every user recorded in data/users.json is in the current snapshot
\* with a rule and can authenticate, after any registrations and reloads.
C18_DynamicUsersSurviveReload ==
    \A i \in 1..Len(cf_users_json) :
        /\ get_user_by_name(cf_config, cf_users_json[i].name) # <<>>
        /\ \E k \in 1..Len(cf_config.rules) :
               cf_config.rules[k] = cf_users_json[i].name

\* C19: when a hot reload is triggered and the YAML does not load, the
\* current snapshot is the snapshot from before the reload.
C19_FailedReloadKeepsSnapshot ==
    (cf_last.op = "reload" /\ cf_last.status = 500) => cf_config = cf_before

\* C19 happens: a reload failed on a file that does not load, with a
\* snapshot that holds a registered user besides the YAML's.
C19_Witness ==
    /\ cf_last.op = "reload"
    /\ cf_last.status = 500
    /\ ~cf_yaml.ok
    /\ Len(cf_config.users) = 2
    /\ cf_config.ver = 1
    /\ cf_config = cf_before

\* C20: the download of an existing zero-length file with the header
\* Range: bytes=0- is answered 206 with an empty body, or 416, and with
\* nothing else.
C20_EmptyFileRange ==
    (/\ rg_size = 0
     /\ rg_header = [unit |-> "bytes=", spec |-> <<"0", "-">>]
     /\ rg_result # NoAnswer)
    => \/ rg_result.status = 206 /\ rg_result.body = 0
       \/ rg_result.status = 416

\* C21: for every Range header that parse_http_range accepts and every file
\* size N >= 0, HttpRange.resolve(N) gives [s, e] with 0 <= s <= max(0, N)
\* and e <= N - 1, and either s <= e or [s, e] is the empty range [N, N - 1].
C21_ResolveWithinFile ==
    (rg_result # NoAnswer /\ parse_http_range(rg_header).parsed)
    => /\ 0 <= resolve_range(parse_http_range(rg_header), rg_size)[1]
       /\ resolve_range(parse_http_range(rg_header), rg_size)[1] <= Max(0, rg_size)
       /\ resolve_range(parse_http_range(rg_header), rg_size)[2] <= rg_size - 1
       /\ \/ resolve_range(parse_http_range(rg_header), rg_size)[1]
               <= resolve_range(parse_http_range(rg_header), rg_size)[2]
          \/ resolve_range(parse_http_range(rg_header), rg_size)
               = <<rg_size, rg_size - 1>>

\* C23: a mkdir that reaches the storage layer fails when the path already
\* exists, and fails when the parent directory of the path does not exist;
\* in both cases no directory is created.
C23_MkdirExistsOrParentMissing ==
    LET b == Below(api_req.paths[1])
        exists == Entry(api_req.root, b.path) \in api_prev_files
        parent_missing ==
            /\ b.path # <<>>
            /\ Entry(api_req.root, SubSeq(b.path, 1, Len(b.path) - 1)) \notin api_prev_files
    IN (/\ api_req.op = "mkdir"
        /\ api_calls # <<>>
        /\ b.ok
        /\ exists \/ parent_missing)
       => /\ api_status = "error"
          /\ api_files = api_prev_files

\* C22: a rename fails and leaves every file unchanged when the new name
\* already exists in the directory of the renamed entry, and also when the
\* new name fails filename validation (as '../x' and every name with a path
\* separator do).
C22_RenameFailsUntouched ==
    (/\ rn_status # "none"
     /\ \/ /\ Below(rn_req.path).ok
           /\ Below(rn_req.path).path # <<>>
           /\ Sibling(Below(rn_req.path).path, rn_req.new_name) \in rn_prev
        \/ ~validate_filename(rn_req.new_name)
        \/ \E k \in 1..Len(rn_req.new_name) : rn_req.new_name[k] \in {"/", "\\"})
    => /\ rn_status = "400"
       /\ rn_files = rn_prev

C25_TransferAccessControl ==
    /\ (ac_req.op = "download" /\ ac_status = "ok")
           => ac_req.user = dt_meta[ac_req.id].recipient
    /\ (ac_req.op = "delete" /\ ac_status = "ok")
           => ac_req.user \in {dt_meta[ac_req.id].sender, dt_meta[ac_req.id].recipient}
    /\ (/\ ac_req.op \in {"download", "delete"}
        /\ ac_req.id \in Kept(ac_before.entries, dt_meta, ac_before.payload, ac_req.now)
        /\ \/ ac_req.op = "download" /\ ac_req.user # dt_meta[ac_req.id].recipient
           \/ ac_req.op = "delete"
                  /\ ac_req.user \notin {dt_meta[ac_req.id].sender,
                                         dt_meta[ac_req.id].recipient})
           => /\ ac_status = "403"
              /\ ac_req.id \in ac_after.entries
              /\ ac_req.id \in ac_after.payload

\* C25 happens: a third user's delete of a pending transfer was answered
\* 403 and the transfer stayed.
C25_Witness ==
    /\ ac_req.op = "delete"
    /\ ac_req.user = "carol"
    /\ ac_status = "403"
    /\ ac_req.id \in dt_entries
    /\ ac_req.id \in dt_payload

\* C26: every entry that list_transfers returns or prepare_download hands
\* out has no expires_at or one strictly after the time of the operation,
\* and the entries whose expires_at is not after that time are pruned with
\* their payloads before the result is determined.
C26_ReturnedEntriesNotExpired ==
    ac_req.op \in {"list", "download"} =>
        /\ \A id \in ac_listed :
               \/ dt_meta[id].expires_at = NoExpiry
               \/ dt_meta[id].expires_at > ac_req.now
        /\ \A id \in ac_before.entries :
               (dt_meta[id].expires_at # NoExpiry /\ dt_meta[id].expires_at <= ac_req.now)
                   => (id \notin ac_after.entries /\ id \notin ac_after.payload)

\* C27: when an address is allowed, adding to the allow list a network that
\* contains the address, with the deny list as it was, leaves the address
\* allowed.
C27_AllowMonotone ==
    (/\ fu_result \in {"allow", "deny"}
     /\ parse_cidr(fu_added) # NoNet
     /\ InNet(ip_address(ip_str), parse_cidr(fu_added)))
    => fu_result = "allow"

\* C27 happens: the address was allowed by a network that a shorter deny
\* network also covers, a more specific allow network was added, and the
\* address is still allowed.
C27_Witness ==
    /\ fu_result = "allow"
    /\ allow_list # <<>>
    /\ deny_list # <<>>
    /\ _get_most_specific(_parse_networks(deny_list), ip_address(ip_str)) # NoNet
    /\ InNet(ip_address(ip_str), parse_cidr(fu_added))
    /\ prefixlen(parse_cidr(fu_added))
           > prefixlen(_get_most_specific(_parse_networks(allow_list), ip_address(ip_str)))

\* C28: evaluate denies a nil user with the authentication-required reason,
\* a user to whom no rule applies with the no-rule reason, and a user whose
\* applicable rules all refuse with the reason of the last applicable rule
\* evaluated: operation, root, path or IP not allowed by rule.
C28_DenialReasons ==
    (rq_result.reason \notin {"pending", "idle"} /\ ~rq_result.allowed) =>
        IF rq_user = NoUser THEN rq_result.reason = "Authentication required"
        ELSE IF matching_rules(cfg_rules, rq_user) = <<>>
        THEN rq_result.reason = "No access rules found for user"
        ELSE /\ rq_result.reason
                    = _evaluate_rule(
                          matching_rules(cfg_rules, rq_user)[
                              Len(matching_rules(cfg_rules, rq_user))],
                          rq_op, rq_root, rq_path, rq_ip).reason
             /\ rq_result.reason \in
                    {"Operation not allowed by rule", "Root not allowed by rule",
                     "Path not allowed by rule", "IP not allowed by rule"}

\* C29: a request passes the middleware classes in the order request
\* metrics, access log, exception shield, IP filter, rate limit, concurrency
\* cap, outermost first; hence a request that the IP filter answers with 403
\* has consumed no rate-limit token and has acquired no concurrency permit.
C29_IpFilterBeforeLimits ==
    \A r \in PlRequests :
        /\ StartsWith(<<"RequestMetricsMiddleware", "AccessLogMiddleware",
                        "ExceptionHandlerMiddleware", "IpFilterMiddleware",
                        "RateLimitMiddleware", "ConcurrencyLimitMiddleware">>,
                      SubSeq(pl_trace[r], 1, Min(6, Len(pl_trace[r]))))
        /\ (pl_status[r] = 403 /\ pl_by[r] = "IpFilterMiddleware")
               => pl_consumed[r] = 0 /\ pl_permit[r] = "none"

\* C30: a request that the rate limiter or the concurrency cap answers with
\* 429 has caused no credential lookup and no password verification.
C30_LimitsBeforeAuth ==
    \A r \in PlRequests :
        pl_status[r] = 429 => pl_lookups[r] = 0 /\ pl_verifies[r] = 0

\* C30 happens: of two requests carrying the administrator's credentials one
\* was answered 429 by the rate limiter and the other 429 by the concurrency
\* cap, while a request let through had its credentials looked up.
C30_Witness ==
    \E r \in PlRequests, q \in PlRequests :
        /\ pl_status[r] = 429
        /\ pl_by[r] \in {"RateLimitMiddleware", "ConcurrencyLimitMiddleware"}
        /\ pl_req[r].authorization
               = create_basic_auth_header(<<"a", "d", "m">>, <<"p", "w">>)
        /\ pl_pc[r] = Done
        /\ q # r
        /\ pl_lookups[q] > 0
        /\ pl_verifies[q] > 0

\* C31: after a successful rename or delete in a share the cached usage of
\* the share has been invalidated, so a get_usage called afterwards returns
\* the value of a walk that started after the operation, never the value
\* cached before it.
C31_FreshUsageAfterChange ==
    /\ (qm_last_op > 0 /\ qm_cache # NoCache) => qm_cache.stamp >= qm_last_op
    /\ \A c \in Callers :
           (qm_pc[c] = "done" /\ qm_call_op[c] > 0)
               => qm_result[c].stamp >= qm_call_op[c]

C37_InvalidationNotLost ==
    \A c \in Callers :
        (qm_pc[c] = "done" /\ qm_call_inv[c] > 0)
            => qm_result[c].stamp >= qm_call_inv[c]

\* C32: when update_limit(n) replaces the semaphore while requests admitted
\* under the old one are in flight, each request releases only the semaphore
\* it acquired, the replacement semaphore never holds more than n free
\* permits, and at most n requests admitted after the update are in flight
\* at the same time.
C32_ReplacedSemaphoreBounded ==
    /\ \A r \in UlRequests : ul_off[r] # 0 => ul_off[r] = ul_on[r]
    /\ ul_sems[semaphore(ul_sems)] <= ul_max
    /\ Cardinality({ r \in UlRequests :
                       ul_pc[r] = "inside" /\ ul_on[r] = semaphore(ul_sems) }) <= ul_max

\* C34: each transfer leaves the pending state exactly once.  Once a
\* download, a delete or the expiry pruning has taken effect on a transfer
\* its fate never changes and its id is never listed again, a download or a
\* delete succeeds only on a pending transfer and makes it delivered or
\* cancelled, and every request on an id that is no longer pending is
\* answered 404.
C34_LeavesPendingOnce ==
    [][\A id \in TransferIds :
          /\ dt_fate[id] \in {"delivered", "cancelled", "expired"}
                 => (dt_fate'[id] = dt_fate[id] /\ id \notin dt_entries')
          /\ (/\ accessVars' # accessVars
              /\ ac_req'.op \in {"download", "delete"}
              /\ ac_req'.id = id)
                 => /\ dt_fate[id] \in {"delivered", "cancelled", "expired"}
                           => ac_status' = "404"
                    /\ ac_status' = "ok"
                           => /\ dt_fate[id] = "pending"
                              /\ dt_fate'[id] = IF ac_req'.op = "download"
                                                THEN "delivered" ELSE "cancelled"]_vars

\* C34 happens: the recipient downloaded a transfer and the sender's delete
\* of it, served afterwards, was answered 404.
C34_Witness ==
    /\ ac_req.op = "delete"
    /\ ac_req.id \in TransferIds
    /\ ac_req.user = dt_meta[ac_req.id].sender
    /\ ac_status = "404"
    /\ dt_fate[ac_req.id] = "delivered"

\* C35: consume(n) refills the bucket to min(capacity, tokens + elapsed *
\* refill_rate), returns true and subtracts n exactly when the refilled
\* amount is at least n, and otherwise returns false and subtracts nothing;
\* after every consume, whatever calls and limit updates came before,
\* 0 <= tokens <= capacity.
C35_ConsumeRefillsThenSubtracts ==
    bk_last.op = "consume" =>
        /\ bk_last.ok
               <=> (bk_last.tokens + bk_last.elapsed * bk_last.refill_rate >= bk_last.n
                    /\ bk_last.capacity >= bk_last.n)
        /\ bk_last.ok =>
               \/ bk_bucket.tokens = bk_last.capacity - bk_last.n
               \/ bk_bucket.tokens
                      = bk_last.tokens + bk_last.elapsed * bk_last.refill_rate - bk_last.n
        /\ bk_last.ok =>
               /\ bk_bucket.tokens + bk_last.n <= bk_last.capacity
               /\ bk_bucket.tokens + bk_last.n
                      <= bk_last.tokens + bk_last.elapsed * bk_last.refill_rate
        /\ ~bk_last.ok =>
               \/ bk_bucket.tokens = bk_last.capacity
               \/ bk_bucket.tokens = bk_last.tokens + bk_last.elapsed * bk_last.refill_rate
        /\ ~bk_last.ok =>
               /\ bk_bucket.tokens <= bk_last.capacity
               /\ bk_bucket.tokens <= bk_last.tokens + bk_last.elapsed * bk_last.refill_rate
        /\ 0 <= bk_bucket.tokens
        /\ bk_bucket.tokens <= bk_bucket.capacity

\* C35 happens: the capacity was lowered below the tokens in the bucket, and
\* the consume that followed was refused for want of tokens and left the
\* bucket at its new capacity.
C35_Witness ==
    /\ bk_last.op = "consume"
    /\ ~bk_last.ok
    /\ bk_last.tokens > bk_last.capacity
    /\ bk_bucket.tokens = bk_bucket.capacity
    /\ bk_last.n > bk_last.capacity

\* C36: for a start-end range over a file of N > 0 bytes resolve returns the
\* start clamped into [0, N] and the end clamped into [-1, N - 1], and the
\* empty range [N, N - 1] when the start is beyond N - 1; for a suffix of k
\* bytes it returns [max(0, N - k), N - 1]; for N = 0 it returns [0, -1];
\* and nothing else is done to the start or the end, whatever s, e, k >= 0.
C36_ResolveOnlyClamps ==
    (/\ rg_result # NoAnswer
     /\ parse_http_range(rg_header).parsed
     /\ parse_http_range(rg_header).suffix_length.some
            => parse_http_range(rg_header).suffix_length.v >= 0)
    => resolve_range(parse_http_range(rg_header), rg_size)
         = IF parse_http_range(rg_header).suffix_length.some
           THEN <<Max(0, rg_size - parse_http_range(rg_header).suffix_length.v),
                  rg_size - 1>>
           ELSE IF rg_size = 0 THEN <<0, -1>>
           ELSE IF parse_http_range(rg_header).start.v > rg_size - 1
           THEN <<rg_size, rg_size - 1>>
           ELSE <<Max(0, Min(parse_http_range(rg_header).start.v, rg_size)),
                  IF parse_http_range(rg_header).end.some
                  THEN Max(-1, Min(parse_http_range(rg_header).end.v, rg_size - 1))
                  ELSE rg_size - 1>>

\* C38: no sequence of list, mkdir, rename, delete and upload requests
\* removes a share's root directory: a delete whose path resolves to the
\* share root itself does not delete it, so every configured share root
\* still exists.
C38_ShareRootsRemain ==
    \A r \in SharePool : Entry(r, <<>>) \in api_files

\* C39: the outcome of the local-admin check depends only on the transport
\* remote address: a request is answered as the request with the same peer
\* and credentials and without X-Forwarded-For, X-Real-IP and
\* CF-Connecting-IP headers is, and it passes require_local_admin only when
\* its transport peer is a loopback address.
C39_DecisionByPeerOnly ==
    ad_status # 0 =>
        /\ ad_status
               = require_local_admin(
                     _parse_config([ok |-> TRUE, ver |-> 1]),
                     [ad_req EXCEPT !.forwarded_for = <<>>, !.real_ip = <<>>,
                                    !.cf_ip = <<>>])
        /\ ad_status = 200 => is_loopback(ad_req.client.addr)

\* C40: hot reload converges: once chfs.yaml stops changing, with a final
\* content that parses, the current snapshot eventually equals the
\* configuration of that content, also when a modification came within the
\* debounce interval of a handled event.
C40_ReloadConverges ==
    <>[](wt_yaml.ok => wt_config = _parse_config(wt_yaml))

\* Without a discarded event the snapshot is that of the file whenever the
\* file parses and no event is waiting.
WatchConvergesUndropped ==
    (wt_queue = <<>> /\ wt_yaml.ok /\ ~wt_dropped)
        => wt_config = _parse_config(wt_yaml)

====
